---- MODULE Spec2Model ----
(***************************************************************************)
(* A model of yavcop's detection-and-resolution core (src/src/extension.ts):*)
(* the CSS variable registry and its resolver, the scanner and the analysis *)
(* cache with its in-flight computations.                                   *)
(*                                                                          *)
(* Text is modelled as JavaScript strings are: a sequence of characters,    *)
(* each a one-character string.  The regular expressions of the source are  *)
(* operators on such sequences.  Indices are 1-based, 0 means "no match".   *)
(* The text never holds the character "$", which String.replace would read  *)
(* as a replacement pattern.                                                *)
(***************************************************************************)
EXTENDS Integers, Sequences, FiniteSets, TLC

VARIABLES
    cssVariableRegistry,        \* Map<string, CSSVariableDeclaration[]>
    cssClassColorRegistry,      \* Map<string, CSSClassColorDeclaration[]>
    callStack,                  \* the activation records of resolveNestedVariables
    resolvePc,                  \* "idle", "running" or "done"
    resolveAsked,               \* the declaration whose value is being resolved
    resolveResult,              \* the value the outermost call returned
    circularDetected,           \* the "Circular reference detected" diagnostic was logged
    files,                      \* the *.css files of the workspace: uri -> text
    watcherEvents,              \* the events of cssWatcher not yet handled
    indexRuns,                  \* the calls of indexWorkspaceCSSFiles in flight
    scanResult,                 \* what collectColorData returned since the registry last changed
    removedNames,               \* the names the last handler of a deleted file left undeclared
    documents,                  \* the TextDocument objects of each uri
    languages,                  \* the setting yavcop.languages
    colorDataCache,             \* Map<string, DocumentColorCache>
    pendingColorComputations,   \* Map<string, Promise<ColorData[]>>, by computation
    computations,               \* the promises ensureColorData has made
    isProbingNativeColors,      \* the flag of getNativeColorRangeKeys
    deactivated,                \* deactivate has run
    lastRequest,                \* the last request for each document since it was closed
    colorText,                  \* the text at the range of a color, as the user wrote it
    parsedColor,                \* what parseColor returned for it
    formatted,                  \* what formatColorByFormat returned for the parsed color
    presentations               \* what provideColorPresentations returned for a chosen color

resolverVars == <<callStack, resolvePc, resolveAsked, resolveResult, circularDetected>>

corpusVars == <<files, watcherEvents, indexRuns, scanResult, removedNames>>

cacheVars == <<documents, languages, colorDataCache, pendingColorComputations, computations,
               isProbingNativeColors, deactivated, lastRequest>>

colorVars == <<colorText, parsedColor, formatted, presentations>>

vars ==
    <<cssVariableRegistry, cssClassColorRegistry, resolverVars, corpusVars, cacheVars, colorVars>>

----------------------------------------------------------------------------
(* Characters and strings *)

Whitespace == {" ", "\n", "\t"}

LowerLetters == <<"a", "b", "c", "d", "e", "f", "g", "h", "i", "j", "k", "l", "m",
                  "n", "o", "p", "q", "r", "s", "t", "u", "v", "w", "x", "y", "z">>

UpperLetters == <<"A", "B", "C", "D", "E", "F", "G", "H", "I", "J", "K", "L", "M",
                  "N", "O", "P", "Q", "R", "S", "T", "U", "V", "W", "X", "Y", "Z">>

Digits == {"0", "1", "2", "3", "4", "5", "6", "7", "8", "9"}

Range(s) == {s[i] : i \in DOMAIN s}

\* The class \w of a JavaScript regular expression.
WordChars == Range(LowerLetters) \cup Range(UpperLetters) \cup Digits \cup {"_"}

\* The class [\w-].
NameChars == WordChars \cup {"-"}

Min(S) == CHOOSE x \in S : \A y \in S : x <= y

Max(S) == CHOOSE x \in S : \A y \in S : x >= y

\* The least and the greatest of a set of indices, 0 for the empty set.
MinOrZero(S) == IF S = {} THEN 0 ELSE Min(S)

MaxOrZero(S) == IF S = {} THEN 0 ELSE Max(S)

\* pat occurs in text at index i.
StartsWithAt(text, i, pat) ==
    /\ i >= 1
    /\ i + Len(pat) - 1 <= Len(text)
    /\ SubSeq(text, i, i + Len(pat) - 1) = pat

\* String.prototype.indexOf(pat, from - 1) + 1.
IndexOfFrom(text, pat, from) ==
    MinOrZero({i \in from..(Len(text) - Len(pat) + 1) : StartsWithAt(text, i, pat)})

\* String.prototype.lastIndexOf(pat) + 1.
LastIndexOf(text, pat) ==
    MaxOrZero({i \in 1..(Len(text) - Len(pat) + 1) : StartsWithAt(text, i, pat)})

\* String.prototype.includes.
Includes(text, pat) == IndexOfFrom(text, pat, 1) # 0

\* text with the len characters at index i replaced by rep; text for i = 0.
ReplacedAt(text, i, len, rep) ==
    IF i = 0 THEN text
    ELSE SubSeq(text, 1, i - 1) \o rep \o SubSeq(text, i + len, Len(text))

\* A replacement that leaves a text with two occurrences of pat as it is.
ReplaceUnlessRepeated(text, pat, rep) ==
    IF IndexOfFrom(text, pat, IndexOfFrom(text, pat, 1) + 1) # 0 THEN text
    ELSE ReplacedAt(text, IndexOfFrom(text, pat, 1), Len(pat), rep)

\* String.prototype.replace(pat, rep) with a string pattern: the first
\* occurrence of pat only.
ReplaceFirst(text, pat, rep) == ReplacedAt(text, IndexOfFrom(text, pat, 1), Len(pat), rep)

\* The first index j >= i at which text has no character of S (Len + 1 at the
\* end); i itself when it is no index of text.
SkipWhile(text, i, S) ==
    IF i < 1 \/ i > Len(text) THEN i
    ELSE Min({j \in i..(Len(text) + 1) : j = Len(text) + 1 \/ text[j] \notin S})

\* String.prototype.trim.
Trim(text) ==
    SubSeq(text, SkipWhile(text, 1, Whitespace),
           MaxOrZero({i \in 1..Len(text) : text[i] \notin Whitespace}))

ToLowerChar(c) ==
    IF \E i \in 1..26 : UpperLetters[i] = c
    THEN LowerLetters[CHOOSE i \in 1..26 : UpperLetters[i] = c]
    ELSE c

\* String.prototype.toLowerCase.
ToLowerCase(text) == [i \in 1..Len(text) |-> ToLowerChar(text[i])]

\* The number of occurrences of the character c, (text.match(/c/g) || []).length.
CountChar(text, c) == Cardinality({i \in 1..Len(text) : text[i] = c})

\* split(separators).filter(Boolean): what is left of text between the
\* characters of seps, token being the part read of the next one.
RECURSIVE Tokens(_, _, _)
Tokens(text, seps, token) ==
    IF text = <<>> THEN IF token = <<>> THEN <<>> ELSE <<token>>
    ELSE IF text[1] \notin seps THEN Tokens(Tail(text), seps, Append(token, text[1]))
    ELSE IF token = <<>> THEN Tokens(Tail(text), seps, <<>>)
    ELSE <<token>> \o Tokens(Tail(text), seps, <<>>)

\* The string literals of the source and the names the model's texts use.
Str ==
    [root |-> <<":", "r", "o", "o", "t">>,
     html |-> <<"h", "t", "m", "l">>,
     media |-> <<"@", "m", "e", "d", "i", "a">>,
     dotDark |-> <<".", "d", "a", "r", "k">>,
     dotLight |-> <<".", "l", "i", "g", "h", "t">>,
     themeDark |-> <<"[", "d", "a", "t", "a", "-", "t", "h", "e", "m", "e", "=", "\"", "d", "a", "r", "k", "\"", "]">>,
     modeDark |-> <<"[", "d", "a", "t", "a", "-", "m", "o", "d", "e", "=", "\"", "d", "a", "r", "k", "\"", "]">>,
     themeLight |-> <<"[", "d", "a", "t", "a", "-", "t", "h", "e", "m", "e", "=", "\"", "l", "i", "g", "h", "t", "\"", "]">>,
     var |-> <<"v", "a", "r", "(">>,
     dashes |-> <<"-", "-">>,
     rgb |-> <<"r", "g", "b">>,
     rgba |-> <<"r", "g", "b", "a">>,
     hsl |-> <<"h", "s", "l">>,
     hsla |-> <<"h", "s", "l", "a">>,
     commentOpen |-> <<"/", "*">>,
     commentClose |-> <<"*", "/">>,
     class |-> <<"c", "l", "a", "s", "s">>,
     hex111 |-> <<"#", "1", "1", "1">>,
     hexEee |-> <<"#", "e", "e", "e">>,
     brand |-> <<"-", "-", "b", "r", "a", "n", "d">>,
     accent |-> <<"-", "-", "a", "c", "c", "e", "n", "t">>,
     btn |-> <<"b", "t", "n">>]

----------------------------------------------------------------------------
(* analyzeContext *)

\* The score of lines 500-507.
Specificity(normalizedSelector) ==
    IF normalizedSelector = Str.root \/ normalizedSelector = Str.html THEN 1
    ELSE IF Includes(normalizedSelector, <<".">>)
         THEN 10 + CountChar(normalizedSelector, ".") * 10
    ELSE IF Includes(normalizedSelector, <<"#">>) THEN 100
    ELSE 0

ContextType(normalizedSelector) ==
    IF normalizedSelector = Str.root \/ normalizedSelector = Str.html THEN "root"
    ELSE IF Includes(normalizedSelector, <<".">>) \/ Includes(normalizedSelector, <<"[">>)
         THEN "class"
    ELSE IF Includes(normalizedSelector, Str.media) THEN "media"
    ELSE "other"

\* "none" stands for undefined.
ThemeHint(normalizedSelector) ==
    IF \/ Includes(normalizedSelector, Str.dotDark)
       \/ Includes(normalizedSelector, Str.themeDark)
       \/ Includes(normalizedSelector, Str.modeDark) THEN "dark"
    ELSE IF \/ Includes(normalizedSelector, Str.dotLight)
            \/ Includes(normalizedSelector, Str.themeLight) THEN "light"
    ELSE "none"

\* The group of /@media\s+([^{]+)/ for the match at index i: the text behind
\* "@media" and one character of whitespace up to the next "{", trimmed;
\* <<"none">>, which stands for undefined, for i = 0.
MediaQueryAt(selector, i) ==
    IF i = 0 THEN <<"none">>
    ELSE Trim(SubSeq(selector, i + 7,
                     SkipWhile(selector, i + 7, Range(selector) \ {"{"}) - 1))

\* selector.match(/@media\s+([^{]+)/): the first "@media" that whitespace and
\* one more character other than "{" follow.
MediaQuery(selector) ==
    MediaQueryAt(selector, MinOrZero({i \in 1..Len(selector) :
                                         /\ StartsWithAt(selector, i, Str.media)
                                         /\ i + 7 <= Len(selector)
                                         /\ selector[i + 6] \in Whitespace
                                         /\ selector[i + 7] # "{"}))

\* Lines 509-542 for the selector and its normal form.
Context(selector, normalizedSelector) ==
    [type        |-> ContextType(normalizedSelector),
     themeHint   |-> ThemeHint(normalizedSelector),
     mediaQuery  |-> MediaQuery(selector),
     specificity |-> Specificity(normalizedSelector)]

analyzeContext(selector) == Context(selector, Trim(ToLowerCase(selector)))

----------------------------------------------------------------------------
(* The registry of CSS variable declarations *)

\* A CSSVariableDeclaration as parseCSSFile builds it (lines 411-418).
Declaration(name, value, uri, line, selector) ==
    [name |-> name, value |-> value, uri |-> uri, line |-> line,
     selector |-> selector, context |-> analyzeContext(selector)]

\* declarations with x inserted behind its first k entries.
InsertedAt(declarations, x, k) ==
    SubSeq(declarations, 1, k) \o <<x>> \o SubSeq(declarations, k + 1, Len(declarations))

\* declarations with x inserted in front of the entries that compare equal.
InsertBeforeEqual(declarations, x) ==
    InsertedAt(declarations, x,
               Cardinality({i \in 1..Len(declarations) :
                   declarations[i].context.specificity < x.context.specificity}))

\* declarations with x inserted behind the entries that do not compare greater.
InsertBySpecificity(declarations, x) ==
    InsertedAt(declarations, x,
               Cardinality({i \in 1..Len(declarations) :
                   declarations[i].context.specificity <= x.context.specificity}))

\* Array.prototype.sort((a, b) => a.context.specificity - b.context.specificity):
\* ascending and stable.
RECURSIVE SortBySpecificity(_)
SortBySpecificity(declarations) ==
    IF Len(declarations) <= 1 THEN declarations
    ELSE InsertBySpecificity(
             SortBySpecificity(SubSeq(declarations, 1, Len(declarations) - 1)),
             declarations[Len(declarations)])

\* registry.get(name) yields a non-empty array.
HasDeclarations(registry, name) ==
    name \in DOMAIN registry /\ Len(registry[name]) > 0

\* The registry after the in-place sort of the arrays of the names in sorted.
SortedInPlace(registry, sorted) ==
    [n \in DOMAIN registry |->
        IF n \in sorted THEN SortBySpecificity(registry[n]) ELSE registry[n]]

----------------------------------------------------------------------------
(* resolveNestedVariables *)

\* varPattern, /var\(\s*(--[\w-]+)\s*\)/, tried at index i: the index at which
\* the name would start and the index behind the name.
VarNameStart(text, i) == SkipWhile(text, i + 4, Whitespace)

VarNameEnd(text, i) == SkipWhile(text, VarNameStart(text, i) + 2, NameChars)

\* The closing ")" at index m, 0 when something else is there.
VarCloseAt(text, m) == IF m >= 1 /\ m <= Len(text) /\ text[m] = ")" THEN m ELSE 0

\* varPattern matched at index i: the index of the closing ")", 0 when the
\* pattern does not match there.
VarMatchEnd(text, i) ==
    IF /\ StartsWithAt(text, i, Str.var)
       /\ StartsWithAt(text, VarNameStart(text, i), Str.dashes)
       /\ VarNameEnd(text, i) > VarNameStart(text, i) + 2
    THEN VarCloseAt(text, SkipWhile(text, VarNameEnd(text, i), Whitespace))
    ELSE 0

\* The capture group of the match at index i: the variable name.
VarMatchName(text, i) == SubSeq(text, VarNameStart(text, i), VarNameEnd(text, i) - 1)

\* varPattern.exec(text) with lastIndex = from - 1: the index of the next match.
NextVarMatch(text, from) == MinOrZero({i \in from..Len(text) : VarMatchEnd(text, i) # 0})

\* A cycle guard that never fires.
CircularReferenceNever(nestedVarName, visitedVars) == FALSE

\* Line 574.
CircularReference(nestedVarName, visitedVars) == nestedVarName \in visitedVars

\* Lines 586-588: the first declaration after the sort.
FirstBySpecificity(declarations) == SortBySpecificity(declarations)[1]

RECURSIVE resolveFrom(_, _, _, _, _)
RECURSIVE resolveNestedVariables(_, _, _)

\* Lines 571-598 for the match at index i, and the return of line 601 for i = 0.
resolveAt(registry, value, resolvedValue, i, visitedVars) ==
    IF i = 0 THEN resolvedValue
    ELSE IF CircularReference(VarMatchName(value, i), visitedVars) THEN value
    ELSE IF ~HasDeclarations(registry, VarMatchName(value, i))
         THEN resolveFrom(registry, value, resolvedValue, VarMatchEnd(value, i) + 1,
                          visitedVars)
    ELSE resolveFrom(registry, value,
                     ReplaceFirst(resolvedValue, SubSeq(value, i, VarMatchEnd(value, i)),
                                  resolveNestedVariables(
                                      registry,
                                      FirstBySpecificity(registry[VarMatchName(value, i)]).value,
                                      visitedVars \cup {VarMatchName(value, i)})),
                     VarMatchEnd(value, i) + 1, visitedVars)

\* The loop of lines 570-599 from lastIndex on.
resolveFrom(registry, value, resolvedValue, from, visitedVars) ==
    resolveAt(registry, value, resolvedValue, NextVarMatch(value, from), visitedVars)

resolveNestedVariables(registry, value, visitedVars) ==
    resolveFrom(registry, value, value, 1, visitedVars)

----------------------------------------------------------------------------
(* Numbers: a JavaScript number is NaN or, here, a fraction n/d with d > 0. *)
(* The numerals of the model's texts are decimal: digits and at most one    *)
(* "." with digits behind it, with an optional "-".  A numeral in another   *)
(* notation of JavaScript (an exponent, a radix prefix, "Infinity", a       *)
(* trailing ".") is outside the model: Unmodelled stops TLC.                *)

NaN == [nan |-> TRUE, n |-> 0, d |-> 1]

Num(n, d) == [nan |-> FALSE, n |-> n, d |-> d]

Unmodelled == CHOOSE x \in {} : TRUE

NumLess(a, b) == ~a.nan /\ ~b.nan /\ a.n * b.d < b.n * a.d

\* -a.
Negated(a) == IF a.nan THEN NaN ELSE Num(-a.n, a.d)

\* a / k for an integer k > 0.
DividedBy(a, k) == IF a.nan THEN NaN ELSE Num(a.n, a.d * k)

\* Math.max and Math.min: NaN if either argument is.
MathMax(a, b) == IF a.nan \/ b.nan THEN NaN ELSE IF NumLess(a, b) THEN b ELSE a

MathMin(a, b) == IF a.nan \/ b.nan THEN NaN ELSE IF NumLess(b, a) THEN b ELSE a

clamp(value, min, max) == MathMin(MathMax(value, min), max)

\* Math.floor of n/d for d > 0.
FloorDiv(n, d) == IF n >= 0 THEN n \div d ELSE -((-n + d - 1) \div d)

\* Math.round of a number that is not NaN: the integer floor(x + 1/2).
RoundInt(a) == FloorDiv(2 * a.n + a.d, 2 * a.d)

RECURSIVE DigitsValue(_)
DigitsValue(ds) ==
    IF Len(ds) = 0 THEN 0
    ELSE 10 * DigitsValue(SubSeq(ds, 1, Len(ds) - 1))
            + (CHOOSE v \in 0..9 : <<"0", "1", "2", "3", "4", "5", "6", "7", "8", "9">>[v + 1]
                                        = ds[Len(ds)])

RECURSIVE Pow10(_)
Pow10(k) == IF k = 0 THEN 1 ELSE 10 * Pow10(k - 1)

\* A "." and a digit are at index j.
HasFraction(text, j) ==
    j >= 1 /\ j < Len(text) /\ text[j] = "." /\ text[j + 1] \in Digits

\* The end of (?:\.[0-9]+)? matched at index j.
FractionEnd(text, j) ==
    IF HasFraction(text, j) THEN SkipWhile(text, j + 1, Digits) ELSE j

\* The end of [0-9]+(?:\.[0-9]+)? matched at index i: the index behind it, 0
\* for no match.
DecimalEnd(text, i) ==
    IF i < 1 \/ i > Len(text) \/ text[i] \notin Digits THEN 0
    ELSE FractionEnd(text, SkipWhile(text, i, Digits))

\* text is digits, or digits "." digits.
IsUnsignedDecimal(text) == DecimalEnd(text, 1) = Len(text) + 1

\* The value of such a text whose digits in front of the "." end before index i.
DecimalValueAt(text, i) ==
    IF i = Len(text) + 1 THEN Num(DigitsValue(text), 1)
    ELSE Num(DigitsValue(SubSeq(text, 1, i - 1) \o SubSeq(text, i + 1, Len(text))),
             Pow10(Len(text) - i))

UnsignedDecimalValue(text) == DecimalValueAt(text, SkipWhile(text, 1, Digits))

\* text could start a numeral of JavaScript: a digit, a sign, "." or "Infinity".
LooksNumeric(text) ==
    Len(text) > 0 /\ text[1] \in Digits \cup {"+", "-", ".", "I"}

\* Number(text) for text without whitespace.
NumberOf(text) ==
    IF text = <<>> THEN Num(0, 1)
    ELSE IF IsUnsignedDecimal(text) THEN UnsignedDecimalValue(text)
    ELSE IF Len(text) > 1 /\ text[1] = "." /\ IsUnsignedDecimal(<<"0">> \o text)
         THEN UnsignedDecimalValue(<<"0">> \o text)
    ELSE IF Len(text) > 1 /\ text[1] = "-" /\ IsUnsignedDecimal(Tail(text))
         THEN Negated(UnsignedDecimalValue(Tail(text)))
    ELSE IF ~LooksNumeric(text) THEN NaN
    ELSE IF \A i \in 2..Len(text) : text[i] \in Digits \cup {"."} THEN Unmodelled
    ELSE IF \E i \in 2..Len(text) : text[i] \in {"e", "E", "x", "X", "o", "O", "b", "B", "n"}
         THEN Unmodelled
    ELSE NaN

\* parseFloat of a text without sign whose longest prefix that is a numeral
\* ends before index j (j = 0: no such prefix).
UnsignedFloat(body, j) ==
    IF j = 0 THEN IF LooksNumeric(body) THEN Unmodelled ELSE NaN
    ELSE IF j <= Len(body) /\ body[j] \in {"e", "E", "."} THEN Unmodelled
    ELSE UnsignedDecimalValue(SubSeq(body, 1, j - 1))

\* parseFloat(text) for text without leading whitespace: the value of the
\* longest prefix that is a numeral.
parseFloat(text) ==
    IF Len(text) > 0 /\ text[1] = "-"
    THEN Negated(UnsignedFloat(Tail(text), DecimalEnd(Tail(text), 1)))
    ELSE UnsignedFloat(text, DecimalEnd(text, 1))

RECURSIVE Gcd(_, _)
Gcd(a, b) == IF b = 0 THEN a ELSE Gcd(b, a % b)

\* n/d in lowest terms for the common divisor g.
Lowest(n, d, g) == Num(n \div g, d \div g)

\* The fraction in lowest terms: equal numbers are equal values.
Reduced(a) ==
    IF a.nan THEN NaN
    ELSE IF a.n = 0 THEN Num(0, 1)
    ELSE Lowest(a.n, a.d, Gcd(IF a.n < 0 THEN -a.n ELSE a.n, a.d))

----------------------------------------------------------------------------
(* parseColor.  A vscode.Color is [red, green, blue, alpha]: alpha a number, *)
(* red, green and blue the numerators k of k/255, or NaNChannel.             *)

NaNChannel == -1

NoColor == [ok |-> FALSE]

\* A ParsedColor for the channels <<r, g, b>>.
ParsedColor(rgb, alpha, originalFormat) ==
    [ok |-> TRUE,
     vscodeColor |-> [red |-> rgb[1], green |-> rgb[2], blue |-> rgb[3],
                      alpha |-> Reduced(alpha)],
     format |-> originalFormat]

HexDigitChars == <<"0", "1", "2", "3", "4", "5", "6", "7", "8", "9",
                   "a", "b", "c", "d", "e", "f">>

IsHexDigit(c) == \E v \in 1..16 : HexDigitChars[v] = ToLowerChar(c)

\* parseInt(c, 16) of one digit.
HexValue(c) == (CHOOSE v \in 1..16 : HexDigitChars[v] = ToLowerChar(c)) - 1

\* /^#([0-9a-f]{3,4}|[0-9a-f]{6}|[0-9a-f]{8})$/i
IsHexColor(text) ==
    /\ Len(text) \in {4, 5, 7, 9}
    /\ text[1] = "#"
    /\ \A i \in 2..Len(text) : IsHexDigit(text[i])

\* Lines 1309-1314 for the digits behind the "#": the 3 and 4 digit forms
\* with every digit doubled, the 6 and 8 digit forms in lower case.
ExpandedHex(text) ==
    IF Len(text) \in {3, 4}
    THEN <<"#">> \o [i \in 1..(2 * Len(text)) |-> text[(i + 1) \div 2]]
    ELSE <<"#">> \o ToLowerCase(text)

normalizeHex(value) ==
    ExpandedHex(IF Len(value) > 0 /\ value[1] = "#" THEN Tail(value) ELSE value)

HexPair(text, i) == 16 * HexValue(text[i]) + HexValue(text[i + 1])

\* parseColorToVSCode on a normalized hex string "#rrggbb" or "#rrggbbaa".
parseColorToVSCode(normalized, originalFormat) ==
    ParsedColor(<<HexPair(normalized, 2), HexPair(normalized, 4), HexPair(normalized, 6)>>,
                IF Len(normalized) = 9 THEN Num(HexPair(normalized, 8), 255) ELSE Num(1, 1),
                originalFormat)

\* The hex branch of parseColor, lines 1249-1265.
parseHexColor(text) ==
    parseColorToVSCode(normalizeHex(text),
                       IF Len(text) - 1 \in {4, 8} THEN "hexAlpha" ELSE "hex")

\* The parts of the arguments of a color function: what is left between
\* "/", "," and whitespace (lines 1323-1328, 1360-1365).
SplitParts(text) == Tokens(text, Whitespace \cup {"/", ","}, <<>>)

EndsWithPercent(text) == Len(text) > 0 /\ text[Len(text)] = "%"

\* Lines 1445-1457 of normalizeAlpha for the number of a text without "%".
AlphaOfNumber(numeric) ==
    IF numeric.nan THEN Num(1, 1) ELSE clamp(numeric, Num(0, 1), Num(1, 1))

\* Lines 1439-1457 of normalizeAlpha for the trimmed text.
AlphaOfText(trimmed) ==
    IF EndsWithPercent(trimmed)
    THEN DividedBy(clamp(parseFloat(trimmed), Num(0, 1), Num(100, 1)), 100)
    ELSE AlphaOfNumber(NumberOf(trimmed))

\* normalizeAlpha; <<>> stands for undefined.
normalizeAlpha(value) == IF value = <<>> THEN Num(1, 1) ELSE AlphaOfText(Trim(value))

\* normalizeRgbComponent: the channel 0..255, NaNChannel, or -2 for undefined.
UndefinedComponent == -2

\* Math.round((percent / 100) * 255)
ChannelOfPercent(percent) ==
    IF percent.nan THEN NaNChannel ELSE RoundInt(Num(percent.n * 255, percent.d * 100))

\* clamp(rounded, 0, 255)
ClampedChannel(rounded) == IF rounded < 0 THEN 0 ELSE IF rounded > 255 THEN 255 ELSE rounded

\* Lines 1394-1398 for Number(value).
ChannelOfNumber(numeric) ==
    IF numeric.nan THEN UndefinedComponent ELSE ClampedChannel(RoundInt(numeric))

normalizeRgbComponent(value) ==
    IF EndsWithPercent(value)
    THEN ChannelOfPercent(clamp(parseFloat(value), Num(0, 1), Num(100, 1)))
    ELSE ChannelOfNumber(NumberOf(value))

\* The group of /^name\((.*)\)$/i on raw, whose first "(" is at index open,
\* for name in names: the text between that "(" and the ")" that ends raw,
\* which holds no line break; <<>>, which has no parts, for no match.
ArgumentsBehind(raw, names, open) ==
    IF /\ open # 0
       /\ ToLowerCase(SubSeq(raw, 1, open - 1)) \in names
       /\ raw[Len(raw)] = ")"
       /\ Len(raw) > open
       /\ "\n" \notin Range(SubSeq(raw, open + 1, Len(raw) - 1))
    THEN SubSeq(raw, open + 1, Len(raw) - 1)
    ELSE <<>>

FunctionArguments(raw, names) == ArgumentsBehind(raw, names, IndexOfFrom(raw, <<"(">>, 1))

\* /name/i.test(raw) || aPart !== undefined || raw.includes('/')
HasAlphaOriginal(raw, name, parts) ==
    \/ Includes(ToLowerCase(raw), name)
    \/ Len(parts) >= 4
    \/ Includes(raw, <<"/">>)

\* aPart of the destructuring [.., .., .., aPart] = parts.
AlphaPart(parts) == IF Len(parts) >= 4 THEN parts[4] ELSE <<>>

\* Lines 1338-1351 of parseRgbFunction for the components <<r, g, b>>.
RgbColor(raw, parts, components) ==
    IF UndefinedComponent \in Range(components) THEN NoColor
    ELSE ParsedColor(components, normalizeAlpha(AlphaPart(parts)),
                     IF HasAlphaOriginal(raw, Str.rgba, parts) THEN "rgba" ELSE "rgb")

\* Lines 1330-1351 of parseRgbFunction for the parts.
RgbOfParts(raw, parts) ==
    IF Len(parts) < 3 THEN NoColor
    ELSE RgbColor(raw, parts, <<normalizeRgbComponent(parts[1]),
                                normalizeRgbComponent(parts[2]),
                                normalizeRgbComponent(parts[3])>>)

parseRgbFunction(raw) ==
    RgbOfParts(raw, SplitParts(FunctionArguments(raw, {Str.rgb, Str.rgba})))

\* The integer a number stands for; numbers with a fraction are outside the
\* model of hslToRgb.
IntegerOf(a) == IF Reduced(a).d = 1 THEN Reduced(a).n ELSE Unmodelled

\* hue2rgb(p, q, t) * 255, rounded, for t in [0, 1]: p and q in 1/10000,
\* t = turn/360.
Hue2RgbOfTurn(p, q, t) ==
    IF t < 60 THEN RoundInt(Num(255 * (60 * p + (q - p) * t), 600000))
    ELSE IF t < 180 THEN RoundInt(Num(255 * q, 10000))
    ELSE IF t < 240 THEN RoundInt(Num(255 * (60 * p + (q - p) * (240 - t)), 600000))
    ELSE RoundInt(Num(255 * p, 10000))

\* hue2rgb with lines 1196-1197: t is at least -1/3 and at most 4/3.
Hue2Rgb255(p, q, turn) ==
    Hue2RgbOfTurn(p, q, IF turn < 0 THEN turn + 360
                        ELSE IF turn > 360 THEN turn - 360 ELSE turn)

\* Lines 1206-1208 for the hue h in degrees: hue2rgb with a hue that is NaN
\* returns p, every comparison with NaN being false.
HueChannels(p, q, h) ==
    IF h.nan THEN <<RoundInt(Num(255 * p, 10000)), RoundInt(Num(255 * p, 10000)),
                    RoundInt(Num(255 * p, 10000))>>
    ELSE <<Hue2Rgb255(p, q, IntegerOf(h) + 120), Hue2Rgb255(p, q, IntegerOf(h)),
           Hue2Rgb255(p, q, IntegerOf(h) - 120)>>

\* Line 1204, q in 1/10000, for s and l in percent.
HslQ(S, L) == IF L < 50 THEN L * (100 + S) ELSE 100 * L + 100 * S - L * S

\* Lines 1192-1210 for the integers S and L.
HslChannels(h, S, L) ==
    IF S = 0 THEN <<RoundInt(Num(255 * L, 100)), RoundInt(Num(255 * L, 100)),
                    RoundInt(Num(255 * L, 100))>>
    ELSE HueChannels(200 * L - HslQ(S, L), HslQ(S, L), h)

\* hslToRgb for h in degrees, s and l in percent: <<r, g, b>>.  A comparison
\* with NaN is false and arithmetic on NaN yields NaN.
hslToRgb(h, s, l) ==
    IF l.nan \/ s.nan THEN <<NaNChannel, NaNChannel, NaNChannel>>
    ELSE HslChannels(h, IntegerOf(s), IntegerOf(l))

\* String.replace('%', ''): the first "%" removed.
WithoutPercent(text) == ReplaceFirst(text, <<"%">>, <<>>)

\* Lines 1367-1383 of parseHslFunction for the segments.
HslOfSegments(raw, segments) ==
    IF Len(segments) < 3 THEN NoColor
    ELSE ParsedColor(hslToRgb(clamp(parseFloat(segments[1]), Num(0, 1), Num(360, 1)),
                              clamp(parseFloat(WithoutPercent(segments[2])),
                                    Num(0, 1), Num(100, 1)),
                              clamp(parseFloat(WithoutPercent(segments[3])),
                                    Num(0, 1), Num(100, 1))),
                     normalizeAlpha(AlphaPart(segments)),
                     IF HasAlphaOriginal(raw, Str.hsla, segments) THEN "hsla" ELSE "hsl")

parseHslFunction(raw) ==
    HslOfSegments(raw, SplitParts(FunctionArguments(raw, {Str.hsl, Str.hsla})))

\* The bare triple [0-9]+(?:\.[0-9]+)?\s+[0-9]+(?:\.[0-9]+)?%\s+[0-9]+(?:\.[0-9]+)?%
\* tried at index i: the index behind the hue, the index of the saturation
\* and of the "%" behind it, the index of the lightness and of its "%".
HueEnd(text, i) == DecimalEnd(text, i)

SaturationStart(text, i) == SkipWhile(text, HueEnd(text, i), Whitespace)

SaturationEnd(text, i) == DecimalEnd(text, SaturationStart(text, i))

LightnessStart(text, i) == SkipWhile(text, SaturationEnd(text, i) + 1, Whitespace)

LightnessEnd(text, i) == DecimalEnd(text, LightnessStart(text, i))

\* The bare triple matches at index i.
HasTriple(text, i) ==
    /\ HueEnd(text, i) # 0
    /\ SaturationStart(text, i) # HueEnd(text, i)
    /\ SaturationEnd(text, i) # 0
    /\ SaturationEnd(text, i) <= Len(text)
    /\ text[SaturationEnd(text, i)] = "%"
    /\ LightnessStart(text, i) # SaturationEnd(text, i) + 1
    /\ LightnessEnd(text, i) # 0
    /\ LightnessEnd(text, i) <= Len(text)
    /\ text[LightnessEnd(text, i)] = "%"

\* (?:0?\.\d+|1(?:\.0+)?) tried at index a: the index behind the match, none
\* when neither alternative matches.
AlphaEndAt(text, a, none) ==
    IF a > Len(text) THEN none
    ELSE IF text[a] = "0" /\ HasFraction(text, a + 1) THEN SkipWhile(text, a + 2, Digits)
    ELSE IF HasFraction(text, a) THEN SkipWhile(text, a + 1, Digits)
    ELSE IF text[a] # "1" THEN none
    ELSE IF a + 2 <= Len(text) /\ text[a + 1] = "." /\ text[a + 2] = "0"
         THEN SkipWhile(text, a + 2, {"0"})
    ELSE a + 1

\* (0?\.\d+|1(?:\.0+)?)$ matched at index a: the alternatives start with
\* different characters, so the one that matches has to reach the end.
IsTripleAlpha(text, a) == AlphaEndAt(text, a, 0) = Len(text) + 1

\* The slash in front of the alpha of the triple at index 1, and the alpha.
TripleSlash(text) == SkipWhile(text, LightnessEnd(text, 1) + 1, Whitespace)

TripleAlphaStart(text) == SkipWhile(text, TripleSlash(text) + 1, Whitespace)

\* The groups of the match of line 1284, alpha <<>> when there is none.
TripleGroups(text, alpha) ==
    [ok |-> TRUE,
     h |-> SubSeq(text, 1, HueEnd(text, 1) - 1),
     s |-> SubSeq(text, SaturationStart(text, 1), SaturationEnd(text, 1) - 1),
     l |-> SubSeq(text, LightnessStart(text, 1), LightnessEnd(text, 1) - 1),
     alpha |-> alpha]

\* The match of the bare triple of line 1284 on text; [ok |-> FALSE] for no
\* match.
TripleMatch(text) ==
    IF ~HasTriple(text, 1) THEN [ok |-> FALSE]
    ELSE IF LightnessEnd(text, 1) = Len(text) THEN TripleGroups(text, <<>>)
    ELSE IF /\ TripleSlash(text) <= Len(text)
            /\ text[TripleSlash(text)] = "/"
            /\ IsTripleAlpha(text, TripleAlphaStart(text))
         THEN TripleGroups(text, SubSeq(text, TripleAlphaStart(text), Len(text)))
    ELSE [ok |-> FALSE]

\* Lines 1286-1296 for the match.
TripleColor(m) ==
    IF ~m.ok THEN NoColor
    ELSE ParsedColor(hslToRgb(clamp(NumberOf(m.h), Num(0, 1), Num(360, 1)),
                              clamp(NumberOf(m.s), Num(0, 1), Num(100, 1)),
                              clamp(NumberOf(m.l), Num(0, 1), Num(100, 1))),
                     normalizeAlpha(m.alpha), "tailwind")

parseTailwindTriple(text) == TripleColor(TripleMatch(text))

\* /^(?:rgb|rgba)\(/i and /^(?:hsl|hsla)\(/i
StartsWithFunction(text, names) ==
    \E name \in names : StartsWithAt(ToLowerCase(text), 1, name \o <<"(">>)

\* parseColor behind line 1246.
ColorOfText(text) ==
    IF IsHexColor(text) THEN parseHexColor(text)
    ELSE IF StartsWithFunction(text, {Str.rgb, Str.rgba}) THEN parseRgbFunction(text)
    ELSE IF StartsWithFunction(text, {Str.hsl, Str.hsla}) THEN parseHslFunction(text)
    ELSE parseTailwindTriple(text)

parseColor(raw) == ColorOfText(Trim(raw))

EmptyRegistry == [n \in {} |-> <<>>]

----------------------------------------------------------------------------
(* The registry: parseCSSFile, findContainingSelector and the handler of    *)
(* deleted files                                                            *)

RECURSIVE Leftmost(_, _)

\* The match that starts at index i and the ones behind it; none for i = 0.
MatchAt(ends, i) ==
    IF i = 0 THEN <<>>
    ELSE <<[index |-> i, end |-> ends[i]]>> \o Leftmost(ends, ends[i])

\* The matches of a regular expression with the g flag, as the exec loop
\* visits them: ends[i] is the index behind the match that starts at i (0: no
\* match at i); the search resumes behind each match.
Leftmost(ends, from) == MatchAt(ends, MinOrZero({i \in from..Len(ends) : ends[i] # 0}))

\* The index behind the character at index e, 0 for e = 0.
Behind(e) == IF e = 0 THEN 0 ELSE e + 1

\* document.positionAt(index).line for the character at index i.
LineOf(text, i) == CountChar(SubSeq(text, 1, i - 1), "\n")

RECURSIVE SplitLines(_)

\* The lines of a text whose first line break is at index nl.
LinesAt(text, nl) ==
    IF nl = 0 THEN <<text>>
    ELSE <<SubSeq(text, 1, nl - 1)>> \o SplitLines(SubSeq(text, nl + 1, Len(text)))

\* text.split('\n')
SplitLines(text) == LinesAt(text, IndexOfFrom(text, <<"\n">>, 1))

\* line.replace(/\s+/g, ' ')
RECURSIVE CollapseWhitespace(_)
CollapseWhitespace(text) ==
    IF text = <<>> THEN <<>>
    ELSE IF text[1] \in Whitespace
         THEN <<" ">> \o CollapseWhitespace(
                  SubSeq(text, SkipWhile(text, 1, Whitespace), Len(text)))
    ELSE <<text[1]>> \o CollapseWhitespace(Tail(text))

\* Lines 487-488: the trimmed line is not empty and not a comment.
IsSelectorLine(line) ==
    /\ line # <<>>
    /\ ~StartsWithAt(line, 1, Str.commentOpen)
    /\ ~StartsWithAt(line, Len(line) - 1, Str.commentClose)

\* The loop of lines 486-493 over the lines from the last one to the first.
RECURSIVE LastSelector(_)
LastSelector(lines) ==
    IF lines = <<>> THEN Str.root
    ELSE IF IsSelectorLine(Trim(lines[Len(lines)]))
         THEN Trim(CollapseWhitespace(Trim(lines[Len(lines)])))
    ELSE LastSelector(SubSeq(lines, 1, Len(lines) - 1))

\* Lines 477-493 for the index of the last "{" in front of the declaration.
SelectorBefore(text, lastOpenBrace) ==
    IF lastOpenBrace = 0 THEN Str.root
    ELSE LastSelector(SplitLines(SubSeq(text, 1, lastOpenBrace - 1)))

findContainingSelector(text, varIndex) ==
    SelectorBefore(text, LastIndexOf(SubSeq(text, 1, varIndex - 1), <<"{">>))

\* :\s*([^;]+); for the ":" at index colon: the indices of the ":" and of the
\* ";", <<0, 0>> for no match.  The group holds at least one character.
ValueBehind(text, colon, semi) ==
    IF colon >= 1 /\ colon <= Len(text) /\ text[colon] = ":" /\ semi > colon + 1
    THEN <<colon, semi>> ELSE <<0, 0>>

\* \s*:\s*([^;]+); matched at index i.
ValueMatch(text, i) ==
    ValueBehind(text, SkipWhile(text, i, Whitespace),
                IndexOfFrom(text, <<";">>, SkipWhile(text, i, Whitespace) + 1))

\* The group of the match: match[2].trim().
ValueText(text, i) ==
    Trim(SubSeq(text, ValueMatch(text, i)[1] + 1, ValueMatch(text, i)[2] - 1))

\* cssVarRegex, /(--[\w-]+)\s*:\s*([^;]+);/ matched at index i: the index
\* behind the name and the index behind the match.
CssVarNameEnd(text, i) ==
    IF StartsWithAt(text, i, Str.dashes) THEN SkipWhile(text, i + 2, NameChars) ELSE 0

CssVarMatchEnd(text, i) ==
    IF CssVarNameEnd(text, i) > i + 2
    THEN Behind(ValueMatch(text, CssVarNameEnd(text, i))[2]) ELSE 0

\* The declaration of lines 403-418 for the match at index i.
CssVarDeclaration(uri, text, i) ==
    Declaration(SubSeq(text, i, CssVarNameEnd(text, i) - 1),
                ValueText(text, CssVarNameEnd(text, i)),
                uri, LineOf(text, i), findContainingSelector(text, i))

\* The declarations of lines 402-424 in the order of the matches.
DeclarationsAt(uri, text, matches) ==
    <<>> \o [k \in 1..Len(matches) |-> CssVarDeclaration(uri, text, matches[k].index)]

CssVarDeclarations(uri, text) ==
    DeclarationsAt(uri, text, Leftmost([i \in 1..Len(text) |-> CssVarMatchEnd(text, i)], 1))

\* A push that skips a declaration the array already holds.
PushedOnce(registry, name, declaration) ==
    IF name \in DOMAIN registry
    THEN IF \E i \in DOMAIN registry[name] : registry[name][i] = declaration
         THEN registry ELSE [registry EXCEPT ![name] = Append(@, declaration)]
    ELSE [n \in DOMAIN registry \cup {name} |->
            IF n = name THEN <<declaration>> ELSE registry[n]]

\* cssVariableRegistry.get(name)!.push(declaration), the key made if absent.
Pushed(registry, name, declaration) ==
    IF name \in DOMAIN registry
    THEN [registry EXCEPT ![name] = Append(@, declaration)]
    ELSE [n \in DOMAIN registry \cup {name} |->
            IF n = name THEN <<declaration>> ELSE registry[n]]

RECURSIVE PushedAll(_, _)
PushedAll(registry, declarations) ==
    IF declarations = <<>> THEN registry
    ELSE PushedAll(Pushed(registry, declarations[1].name, declarations[1]),
                   Tail(declarations))

\* The color properties of colorPropertyRegex in the order of the alternation.
ColorProperties ==
    << <<"c", "o", "l", "o", "r">>,
       <<"b", "a", "c", "k", "g", "r", "o", "u", "n", "d", "-", "c", "o", "l", "o", "r">>,
       <<"b", "o", "r", "d", "e", "r", "-", "c", "o", "l", "o", "r">>,
       <<"b", "a", "c", "k", "g", "r", "o", "u", "n", "d">> >>

\* (color|background-color|border-color|background)\s*:\s*([^;]+); at index p:
\* the number of the first alternative that matches, 0 for none.
ColorPropertyAt(text, p) ==
    MinOrZero({a \in 1..Len(ColorProperties) :
                  /\ StartsWithAt(text, p, ColorProperties[a])
                  /\ ValueMatch(text, p + Len(ColorProperties[a]))[2] # 0})

\* The property matched at index p, and the index behind it.
PropertyAt(text, p) == ColorProperties[ColorPropertyAt(text, p)]

PropertyEnd(text, p) == p + Len(PropertyAt(text, p))

\* colorPropertyRegex, /\.([\.\w-]+)\s*\{[^}]*?(color|...)\s*:\s*([^;]+);/,
\* tried at index i: the index behind the class name and the index at which
\* the "{" has to be.
ClassNameEnd(text, i) == SkipWhile(text, i + 1, NameChars \cup {"."})

ClassBrace(text, i) == SkipWhile(text, ClassNameEnd(text, i), Whitespace)

\* The first property the lazy [^}]*? reaches behind the "{" at index brace,
\* the next "}" being at index close (0: none); 0 when it reaches none.
FirstProperty(text, brace, close) ==
    MinOrZero({p \in (brace + 1)..(IF close = 0 THEN Len(text) ELSE close) :
                  ColorPropertyAt(text, p) # 0})

\* colorPropertyRegex matched at index i: the index of the property, 0 for no
\* match.
ClassColorMatch(text, i) ==
    IF /\ i <= Len(text)
       /\ text[i] = "."
       /\ ClassNameEnd(text, i) > i + 1
       /\ ClassBrace(text, i) <= Len(text)
       /\ text[ClassBrace(text, i)] = "{"
    THEN FirstProperty(text, ClassBrace(text, i),
                       IndexOfFrom(text, <<"}">>, ClassBrace(text, i) + 1))
    ELSE 0

\* The index behind the match whose property is at index p, 0 for p = 0.
ClassColorEndAt(text, p) ==
    IF p = 0 THEN 0 ELSE ValueMatch(text, PropertyEnd(text, p))[2] + 1

ClassColorMatchEnd(text, i) == ClassColorEndAt(text, ClassColorMatch(text, i))

ClassColorDeclaration(className, property, value, uri, line, selector) ==
    [className |-> className, property |-> property, value |-> value,
     uri |-> uri, line |-> line, selector |-> selector]

RECURSIVE sortedByResolution(_, _, _, _)

\* The names sorted for the match at index i of value and behind it.
sortedAt(registry, value, i, visitedVars) ==
    IF i = 0 \/ CircularReference(VarMatchName(value, i), visitedVars) THEN {}
    ELSE IF ~HasDeclarations(registry, VarMatchName(value, i))
         THEN sortedByResolution(registry, value, VarMatchEnd(value, i) + 1, visitedVars)
    ELSE {VarMatchName(value, i)}
            \cup sortedByResolution(registry,
                                    FirstBySpecificity(registry[VarMatchName(value, i)]).value,
                                    1, visitedVars \cup {VarMatchName(value, i)})
            \cup sortedByResolution(registry, value, VarMatchEnd(value, i) + 1, visitedVars)

\* The names whose arrays one call of resolveNestedVariables sorts in place
\* (line 586), from lastIndex on.
sortedByResolution(registry, value, from, visitedVars) ==
    sortedAt(registry, value, NextVarMatch(value, from), visitedVars)

\* What lines 433-435 and 452-453 read off the text for the match at index i
\* whose property is at index p.
ClassColorRule(text, i, p) ==
    [className |-> SubSeq(text, i + 1, ClassNameEnd(text, i) - 1),
     property |-> PropertyAt(text, p),
     value |-> ValueText(text, PropertyEnd(text, p)),
     line |-> LineOf(text, i),
     selector |-> findContainingSelector(text, i)]

RulesAt(text, matches) ==
    <<>> \o [k \in 1..Len(matches) |->
                ClassColorRule(text, matches[k].index, ClassColorMatch(text, matches[k].index))]

\* The rules with a color property that the loop of lines 432-436 visits.
ClassColorRules(text) ==
    RulesAt(text, Leftmost([i \in 1..Len(text) |-> ClassColorMatchEnd(text, i)], 1))

\* What parseCSSFile reads off the text of the document uri: the declarations
\* of its first loop and the rules of its second.
Extracted(uri, text) ==
    [uri |-> uri, declarations |-> CssVarDeclarations(uri, text), rules |-> ClassColorRules(text)]

\* Lines 440-447: the value of a rule whose first reference is at index varAt
\* (0: none), resolved, and the registry as the resolution leaves it.
ResolvedValue(variables, value, varAt) ==
    IF varAt # 0 /\ HasDeclarations(variables, VarMatchName(value, varAt))
    THEN resolveNestedVariables(variables, variables[VarMatchName(value, varAt)][1].value, {})
    ELSE value

SortedByValue(variables, value, varAt) ==
    IF varAt # 0 /\ HasDeclarations(variables, VarMatchName(value, varAt))
    THEN SortedInPlace(variables,
                       sortedByResolution(variables,
                                          variables[VarMatchName(value, varAt)][1].value,
                                          1, {}))
    ELSE variables

\* Lines 450-466: the class registry after the rule with its value resolved.
ClassColorPushed(classes, uri, rule, resolvedValue) ==
    IF parseColor(resolvedValue).ok
    THEN Pushed(classes, rule.className,
                ClassColorDeclaration(rule.className, rule.property, resolvedValue,
                                      uri, rule.line, rule.selector))
    ELSE classes

\* Lines 436-466 for one rule: the two registries after it.
ClassColorStep(state, uri, rule) ==
    [variables |-> SortedByValue(state.variables, rule.value, NextVarMatch(rule.value, 1)),
     classes |-> ClassColorPushed(state.classes, uri, rule,
                                  ResolvedValue(state.variables, rule.value,
                                                NextVarMatch(rule.value, 1)))]

RECURSIVE ClassColorLoop(_, _, _)
ClassColorLoop(state, uri, rules) ==
    IF rules = <<>> THEN state
    ELSE ClassColorLoop(ClassColorStep(state, uri, rules[1]), uri, Tail(rules))

\* parseCSSFile on a document with the extracted content: the registries after
\* the file has been parsed.
parseCSSFile(variables, classes, extracted) ==
    ClassColorLoop([variables |-> PushedAll(variables, extracted.declarations),
                    classes |-> classes],
                   extracted.uri, extracted.rules)

\* The array of a name without the declarations of uri.
FilteredOf(declarations, uri) == SelectSeq(declarations, LAMBDA d : d.uri # uri)

\* A handler of deleted files that drops the declarations of every file.
WithoutDeclarationsOfAny(registry, uri) == EmptyRegistry

\* Lines 140-147: cssVariableRegistry without the declarations of uri; a name
\* left with no declaration loses its key.
WithoutDeclarationsOf(registry, uri) ==
    [n \in {k \in DOMAIN registry : FilteredOf(registry[k], uri) # <<>>} |->
        FilteredOf(registry[n], uri)]

----------------------------------------------------------------------------
(* The scanner: collectColorData and its seven matchers.  A range is the    *)
(* pair of the index of its first character and the index behind its last:  *)
(* positionAt maps the indices of a text one-to-one to positions.           *)

\* \b in front of the word character at index i.
WordStartsAt(text, i) == i = 1 \/ text[i - 1] \notin WordChars

\* \b behind a word character, in front of index i.
WordEndsBefore(text, i) == i > Len(text) \/ text[i] \notin WordChars

\* The number of hex digits behind index i.
HexRun(text, i) ==
    SkipWhile(text, i + 1, {c \in Range(text) : IsHexDigit(c)}) - (i + 1)

\* [0-9a-fA-F]{n}\b behind index i.
HexFits(text, i, n) == HexRun(text, i) >= n /\ WordEndsBefore(text, i + 1 + n)

\* hexRegex, /#(?:[0-9a-fA-F]{3,4}|[0-9a-fA-F]{6}|[0-9a-fA-F]{8})\b/ at index i:
\* the index behind the match.
HexMatchEnd(text, i) ==
    IF text[i] # "#" THEN 0
    ELSE IF HexFits(text, i, 4) THEN i + 5
    ELSE IF HexFits(text, i, 3) THEN i + 4
    ELSE IF HexFits(text, i, 6) THEN i + 7
    ELSE IF HexFits(text, i, 8) THEN i + 9
    ELSE 0

\* \b(rgb|rgba|hsl|hsla)\( without regard to case at index i: the index of the
\* "(", 0 for no match.
FunctionOpenAt(text, i) ==
    IF ~WordStartsAt(text, i) THEN 0
    ELSE IF /\ i + 3 <= Len(text)
            /\ ToLowerCase(SubSeq(text, i, i + 2)) \in {Str.rgb, Str.hsl}
            /\ text[i + 3] = "("
         THEN i + 3
    ELSE IF /\ i + 4 <= Len(text)
            /\ ToLowerCase(SubSeq(text, i, i + 3)) \in {Str.rgba, Str.hsla}
            /\ text[i + 4] = "("
         THEN i + 4
    ELSE 0

\* ([^\n]*?)\) behind the "(": the index behind the first ")" at index close
\* unless a line break, at index newline, is in front of it.
ClosedBehind(close, newline) ==
    IF close # 0 /\ (newline = 0 \/ newline > close) THEN close + 1 ELSE 0

FuncEndBehind(text, open) ==
    IF open = 0 THEN 0
    ELSE ClosedBehind(IndexOfFrom(text, <<")">>, open + 1),
                      IndexOfFrom(text, <<"\n">>, open + 1))

\* funcRegex, /\b(?:rgb|rgba|hsl|hsla)\(([^\n]*?)\)/gi at index i.
FuncMatchEnd(text, i) == FuncEndBehind(text, FunctionOpenAt(text, i))

\* (?:\s*\/\s*(?:0?\.\d+|1(?:\.0+)?))? for the first character behind the
\* whitespace at index slash: the index behind the alpha, i when there is none.
AlphaEndBehind(text, i, slash) ==
    IF slash > Len(text) \/ text[slash] # "/" THEN i
    ELSE AlphaEndAt(text, SkipWhile(text, slash + 1, Whitespace), i)

TripleAlphaEnd(text, i) == AlphaEndBehind(text, i, SkipWhile(text, i, Whitespace))

\* tailwindRegex at index i: the index behind the match.
TailwindMatchEnd(text, i) ==
    IF i > 1 /\ text[i - 1] \in WordChars \cup {"#", "("} THEN 0
    ELSE IF ~HasTriple(text, i) THEN 0
    ELSE TripleAlphaEnd(text, LightnessEnd(text, i) + 1)

\* varInFuncRegex, /\b(hsl|hsla|rgb|rgba)\(\s*var\(\s*(--[\w-]+)\s*\)\s*\)/gi,
\* tried at index i: the index of "var(", of the name and behind the name, of
\* the ")" that closes var and of the one that closes the function.
WrappedVar(text, i) == SkipWhile(text, FunctionOpenAt(text, i) + 1, Whitespace)

WrappedName(text, i) == SkipWhile(text, WrappedVar(text, i) + 4, Whitespace)

WrappedNameEnd(text, i) == SkipWhile(text, WrappedName(text, i) + 2, NameChars)

WrappedInner(text, i) == SkipWhile(text, WrappedNameEnd(text, i), Whitespace)

WrappedOuter(text, i) == SkipWhile(text, WrappedInner(text, i) + 1, Whitespace)

\* varInFuncRegex at index i: the index behind the match, 0 for no match.
VarInFuncMatchEnd(text, i) ==
    IF /\ FunctionOpenAt(text, i) # 0
       /\ WrappedVar(text, i) + 3 <= Len(text)
       /\ ToLowerCase(SubSeq(text, WrappedVar(text, i), WrappedVar(text, i) + 3)) = Str.var
       /\ StartsWithAt(text, WrappedName(text, i), Str.dashes)
       /\ WrappedNameEnd(text, i) > WrappedName(text, i) + 2
       /\ WrappedInner(text, i) <= Len(text)
       /\ text[WrappedInner(text, i)] = ")"
       /\ WrappedOuter(text, i) <= Len(text)
       /\ text[WrappedOuter(text, i)] = ")"
    THEN WrappedOuter(text, i) + 1 ELSE 0

\* The prefixes of tailwindClassRegex.
UtilityPrefixes ==
    { <<"b", "g">>, <<"t", "e", "x", "t">>, <<"b", "o", "r", "d", "e", "r">>,
      <<"r", "i", "n", "g">>, <<"s", "h", "a", "d", "o", "w">>, <<"f", "r", "o", "m">>,
      <<"v", "i", "a">>, <<"t", "o">>, <<"o", "u", "t", "l", "i", "n", "e">>,
      <<"d", "e", "c", "o", "r", "a", "t", "i", "o", "n">>,
      <<"d", "i", "v", "i", "d", "e">>, <<"a", "c", "c", "e", "n", "t">>,
      <<"c", "a", "r", "e", "t">> }

\* The prefixes that, with a "-", are at index i.  No prefix followed by "-"
\* starts another one, so at most one alternative fits.
UtilityPrefixAt(text, i) ==
    {pre \in UtilityPrefixes : StartsWithAt(text, i, pre \o <<"-">>)}

\* tailwindClassRegex, /\b(bg|...|caret)-(\w+(?:-\w+)?)\b/, tried at index i:
\* the index of the color name and the index behind its first word.
UtilityName(text, i) == i + Len(CHOOSE pre \in UtilityPrefixAt(text, i) : TRUE) + 1

UtilityWordEnd(text, i) == SkipWhile(text, UtilityName(text, i), WordChars)

\* The end of (?:-\w+)? at index w.
SecondWordEnd(text, w) ==
    IF w < Len(text) /\ text[w] = "-" /\ text[w + 1] \in WordChars
    THEN SkipWhile(text, w + 1, WordChars) ELSE w

\* tailwindClassRegex at index i: the index behind the match, 0 for no match.
UtilityMatchEnd(text, i) ==
    IF /\ WordStartsAt(text, i)
       /\ UtilityPrefixAt(text, i) # {}
       /\ UtilityWordEnd(text, i) > UtilityName(text, i)
    THEN SecondWordEnd(text, UtilityWordEnd(text, i)) ELSE 0

Quotes == {"\"", "'"}

\* classNameRegex, /class\s*=\s*["']([^"']+)["']/, tried at index i: the index
\* of the "=", of the opening quote and of the closing one.
AttributeEquals(text, i) == SkipWhile(text, i + 5, Whitespace)

AttributeQuote(text, i) == SkipWhile(text, AttributeEquals(text, i) + 1, Whitespace)

AttributeClose(text, i) ==
    SkipWhile(text, AttributeQuote(text, i) + 1, Range(text) \ Quotes)

\* classNameRegex at index i: the index behind the match, 0 for no match.
ClassAttributeMatchEnd(text, i) ==
    IF /\ StartsWithAt(text, i, Str.class)
       /\ AttributeEquals(text, i) <= Len(text)
       /\ text[AttributeEquals(text, i)] = "="
       /\ AttributeQuote(text, i) <= Len(text)
       /\ text[AttributeQuote(text, i)] \in Quotes
       /\ AttributeClose(text, i) > AttributeQuote(text, i) + 1
       /\ AttributeClose(text, i) <= Len(text)
    THEN AttributeClose(text, i) + 1 ELSE 0

\* classMatch[1].split(/\s+/) without the empty strings, which line 736 skips.
SplitWords(text) == Tokens(text, Whitespace, <<>>)

\* One ColorData.  <<>> and FALSE stand for the fields an occurrence lacks.
ColorData(range, originalText, parsed, variableName, wrapped, tailwind, className) ==
    [range |-> range,
     originalText |-> originalText,
     vscodeColor |-> parsed.vscodeColor,
     isCssVariable |-> variableName # <<>>,
     variableName |-> variableName,
     isWrappedInFunction |-> wrapped,
     isTailwindClass |-> tailwind,
     isCssClass |-> className # <<>>,
     cssClassName |-> className]

\* The state of one scan: the results, the keys of seenRanges, and the names
\* whose arrays in cssVariableRegistry the scan has sorted in place.
NewScan == [results |-> <<>>, seenRanges |-> {}, sorted |-> {}]

\* A reference to a variable in the range of the match m: the name, the
\* wrapping function (<<>>: none) and whether it is a utility class.
Reference(m, name, wrapping, tailwind) ==
    [index |-> m.index, end |-> m.end, variableName |-> name,
     wrappingFunction |-> wrapping, tailwind |-> tailwind]

\* The references of lines 713-715, 720-722 and 727-729 for the matches.
VarReferences(text, matches) ==
    <<>> \o [k \in 1..Len(matches) |->
                Reference(matches[k], VarMatchName(text, matches[k].index), <<>>, FALSE)]

VarInFuncReferences(text, matches) ==
    <<>> \o [k \in 1..Len(matches) |->
                Reference(matches[k],
                          SubSeq(text, WrappedName(text, matches[k].index),
                                 WrappedNameEnd(text, matches[k].index) - 1),
                          SubSeq(text, matches[k].index,
                                 FunctionOpenAt(text, matches[k].index) - 1),
                          FALSE)]

UtilityReferences(text, matches) ==
    <<>> \o [k \in 1..Len(matches) |->
                Reference(matches[k],
                          Str.dashes \o SubSeq(text, UtilityName(text, matches[k].index),
                                               matches[k].end - 1),
                          <<>>, TRUE)]

\* Lines 734-738 for the class attribute at index i: the words of the class
\* list, each with classMatch.index + classMatch[0].indexOf(className).
ClassNamesOf(text, i, fullMatch, words) ==
    <<>> \o [k \in 1..Len(words) |->
                [className |-> words[k],
                 startIndex |-> i - 1 + IndexOfFrom(fullMatch, words[k], 1)]]

ClassNamesAt(text, m) ==
    ClassNamesOf(text, m.index, SubSeq(text, m.index, m.end - 1),
                 SplitWords(SubSeq(text, AttributeQuote(text, m.index) + 1,
                                   AttributeClose(text, m.index) - 1)))

RECURSIVE ClassNames(_, _)
ClassNames(text, matches) ==
    IF matches = <<>> THEN <<>>
    ELSE ClassNamesAt(text, matches[1]) \o ClassNames(text, Tail(matches))

\* What the seven expressions of collectColorData match on text, in the order
\* of the exec loops: the literals with their ranges, the references, and the
\* class names of the class attributes.
Matchers(text) ==
    [text |-> text,
     literals |->
         Leftmost([i \in 1..Len(text) |-> HexMatchEnd(text, i)], 1)
         \o Leftmost([i \in 1..Len(text) |-> FuncMatchEnd(text, i)], 1)
         \o Leftmost([i \in 1..Len(text) |-> TailwindMatchEnd(text, i)], 1),
     references |->
         VarReferences(text,
             Leftmost([i \in 1..Len(text) |-> Behind(VarMatchEnd(text, i))], 1))
         \o VarInFuncReferences(text,
             Leftmost([i \in 1..Len(text) |-> VarInFuncMatchEnd(text, i)], 1))
         \o UtilityReferences(text,
             Leftmost([i \in 1..Len(text) |-> UtilityMatchEnd(text, i)], 1)),
     classNames |->
         ClassNames(text,
             Leftmost([i \in 1..Len(text) |-> ClassAttributeMatchEnd(text, i)], 1))]

\* Lines 671-688 of pushMatch with the result of parseColor.
pushParsed(scan, range, matchText, parsed) ==
    IF ~parsed.ok \/ range \in scan.seenRanges THEN scan
    ELSE [scan EXCEPT !.seenRanges = @ \cup {range},
                      !.results = Append(@, ColorData(range, matchText, parsed,
                                                      <<>>, FALSE, FALSE, <<>>))]

\* pushMatch of lines 665-689.
pushMatch(scan, text, startIndex, end) ==
    pushParsed(scan, <<startIndex, end>>, SubSeq(text, startIndex, end - 1),
               parseColor(SubSeq(text, startIndex, end - 1)))

\* A referenceParsed that gives up the results of the scan when the value is
\* no color.
referenceParsedOrNothing(scan, text, m, parsed, sorted) ==
    IF ~parsed.ok THEN [NewScan EXCEPT !.sorted = scan.sorted \cup sorted]
    ELSE [scan EXCEPT !.sorted = @ \cup sorted,
                      !.seenRanges = @ \cup {<<m.index, m.end>>},
                      !.results = Append(@, ColorData(<<m.index, m.end>>,
                                                      SubSeq(text, m.index, m.end - 1),
                                                      parsed, m.variableName,
                                                      m.wrappingFunction # <<>>,
                                                      m.tailwind, <<>>))]

\* Lines 637-658 for the reference m with the result of parseColor; sorted
\* are the names whose arrays lines 625-630 have sorted.
referenceParsed(scan, text, m, parsed, sorted) ==
    IF ~parsed.ok THEN [scan EXCEPT !.sorted = @ \cup sorted]
    ELSE [scan EXCEPT !.sorted = @ \cup sorted,
                      !.seenRanges = @ \cup {<<m.index, m.end>>},
                      !.results = Append(@, ColorData(<<m.index, m.end>>,
                                                      SubSeq(text, m.index, m.end - 1),
                                                      parsed, m.variableName,
                                                      m.wrappingFunction # <<>>,
                                                      m.tailwind, <<>>))]

\* A wrapping that leaves the function out.
Unwrapped(wrappingFunction, colorValue) == colorValue

\* Lines 633-635: the function in front of the resolved value.
Wrapped(wrappingFunction, colorValue) ==
    IF wrappingFunction = <<>> THEN colorValue
    ELSE wrappingFunction \o <<"(">> \o colorValue \o <<")">>

\* Lines 625-658 for the first declaration after the sort.
referenceDeclared(scan, registry, text, m, declaration) ==
    referenceParsed(scan, text, m,
                    parseColor(Wrapped(m.wrappingFunction,
                                       resolveNestedVariables(registry, declaration.value, {}))),
                    {m.variableName} \cup sortedByResolution(registry, declaration.value, 1, {}))

\* A collectCSSVariableReference that also skips a reference whose range
\* overlaps a range that was seen.
collectCSSVariableReferenceOutside(scan, registry, text, m) ==
    IF \/ \E seen \in scan.seenRanges : seen[1] < m.end /\ m.index < seen[2]
       \/ ~HasDeclarations(registry, m.variableName)
    THEN scan
    ELSE referenceDeclared(scan, registry, text, m, FirstBySpecificity(registry[m.variableName]))

\* collectCSSVariableReference and collectTailwindClass, which differ in the
\* fields of the occurrence only, for the reference m.
collectCSSVariableReference(scan, registry, text, m) ==
    IF <<m.index, m.end>> \in scan.seenRanges \/ ~HasDeclarations(registry, m.variableName)
    THEN scan
    ELSE referenceDeclared(scan, registry, text, m, FirstBySpecificity(registry[m.variableName]))

\* Lines 832-845 of collectCSSClassColor with the result of parseColor.
classColorParsed(scan, range, className, parsed, sorted) ==
    IF ~parsed.ok THEN [scan EXCEPT !.sorted = @ \cup sorted]
    ELSE [scan EXCEPT !.sorted = @ \cup sorted,
                      !.seenRanges = @ \cup {range},
                      !.results = Append(@, ColorData(range, className, parsed,
                                                      <<>>, FALSE, FALSE, className))]

\* A collectCSSClassColor that does not look into seenRanges.
collectCSSClassColorUnseen(scan, registry, classes, startIndex, className) ==
    IF ~HasDeclarations(classes, className) THEN scan
    ELSE classColorParsed(scan, <<startIndex, startIndex + Len(className)>>, className,
                          parseColor(resolveNestedVariables(registry,
                                                            classes[className][1].value, {})),
                          sortedByResolution(registry, classes[className][1].value, 1, {}))

collectCSSClassColor(scan, registry, classes, startIndex, className) ==
    IF \/ <<startIndex, startIndex + Len(className)>> \in scan.seenRanges
       \/ ~HasDeclarations(classes, className)
    THEN scan
    ELSE classColorParsed(scan, <<startIndex, startIndex + Len(className)>>, className,
                          parseColor(resolveNestedVariables(registry,
                                                            classes[className][1].value, {})),
                          sortedByResolution(registry, classes[className][1].value, 1, {}))

\* The loops of collectColorData over the matches left: of the literals
\* (lines 691-708), of the references (lines 711-729) and of the class names
\* (lines 732-741).
RECURSIVE LiteralLoop(_, _, _)
LiteralLoop(scan, text, matches) ==
    IF matches = <<>> THEN scan
    ELSE LiteralLoop(pushMatch(scan, text, matches[1].index, matches[1].end),
                     text, Tail(matches))

RECURSIVE ReferenceLoop(_, _, _, _)
ReferenceLoop(scan, registry, text, matches) ==
    IF matches = <<>> THEN scan
    ELSE ReferenceLoop(collectCSSVariableReference(scan, registry, text, matches[1]),
                       registry, text, Tail(matches))

RECURSIVE ClassNameLoop(_, _, _, _)
ClassNameLoop(scan, registry, classes, classNames) ==
    IF classNames = <<>> THEN scan
    ELSE ClassNameLoop(IF classNames[1].className \in DOMAIN classes
                       THEN collectCSSClassColor(scan, registry, classes,
                                                 classNames[1].startIndex,
                                                 classNames[1].className)
                       ELSE scan,
                       registry, classes, Tail(classNames))

\* collectColorData on the text whose matches are found, against the
\* registries: the state of the scan when it returns.  The order of the
\* resolutions does not change what they sort.
collectColorData(registry, classes, found) ==
    ClassNameLoop(ReferenceLoop(LiteralLoop(NewScan, found.text, found.literals),
                                registry, found.text, found.references),
                  registry, classes, found.classNames)

----------------------------------------------------------------------------
(* The workspace *)

Uris == {"a.css", "b.css"}

\* A uri with no file.
NoFile == "no file"

\* No scan has run since the registry last changed.
NoScan == [document |-> "none", results |-> <<>>, ran |-> FALSE]

\* No file, no event, no indexing: the workspace of the resolution runs.
CorpusIdle ==
    /\ files = [u \in Uris |-> NoFile]
    /\ watcherEvents = {}
    /\ indexRuns = <<>>
    /\ scanResult = NoScan
    /\ removedNames = {}

----------------------------------------------------------------------------
(* The analysis cache: its state *)

\* The documents that are analysed, by uri.toString(), and their language.
Documents == {"page.html"}

LanguageId(document) == "html"

\* No document: no editor is visible.
NoDocument == "no document"

\* The values of the setting yavcop.languages.
Configurations == {{"html"}, {"*"}, {}}

\* A uri that no document was opened for.  versions[k] is the version that
\* the k-th TextDocument object of the uri shows; the last one is the open
\* document or, when none is open, the one that was closed last.  text names
\* the text of the open document in Doc.
Unopened == [open |-> FALSE, versions |-> <<>>, text |-> "none"]

Object(doc) == Len(doc.versions)

Version(doc) == doc.versions[Len(doc.versions)]

\* No entry of colorDataCache.  from names the computation that made the
\* array data, which is the identity of the array.
NoEntry == [version |-> 0, data |-> <<>>, from |-> 0]

\* No computation: no entry of pendingColorComputations.
NoComputation == 0

\* No request for the analysis of the document since it was closed.
NoRequest == [object |-> 0, version |-> 0, from |-> 0, how |-> "none"]

\* No document, no analysis: the cache of the runs that observe no document.
CacheIdle ==
    /\ documents = [document \in Documents |-> Unopened]
    /\ languages = {"html"}
    /\ colorDataCache = [document \in Documents |-> NoEntry]
    /\ pendingColorComputations = [document \in Documents |-> NoComputation]
    /\ computations = <<>>
    /\ isProbingNativeColors = FALSE
    /\ deactivated = FALSE
    /\ lastRequest = [document \in Documents |-> NoRequest]

----------------------------------------------------------------------------
(* Colors as text: the state *)

\* parseColor has not been called.
NotParsed == [called |-> FALSE, result |-> [ok |-> FALSE]]

\* formatColorByFormat has not been called.
NotFormatted == [called |-> FALSE, format |-> "none", value |-> <<>>]

\* provideColorPresentations has not been called.
NotPresented == [called |-> FALSE, color |-> <<>>, values |-> <<>>]

\* No color is being edited.
ColorIdle ==
    /\ colorText = <<>>
    /\ parsedColor = NotParsed
    /\ formatted = NotFormatted
    /\ presentations = NotPresented

----------------------------------------------------------------------------
(* One resolution, call by call: the activation records of                 *)
(* resolveNestedVariables are the entries of callStack, the last one the   *)
(* running call.                                                           *)

MaxNames == 3

\* The property names --a, --b, ...
Names == {Str.dashes \o <<LowerLetters[i]>> : i \in 1..MaxNames}


VarRef(n) == Str.var \o n \o <<")">>


\* The raw values a declaration of the resolution runs may have: a literal, a
\* reference to each name, a reference behind other text, two references,
\* two references to one name.
ResolveValues ==
    {Str.hex111}
        \cup {VarRef(n) : n \in Names}
        \cup {<<"x", " ">> \o VarRef(Str.dashes \o <<"a">>),
              VarRef(Str.dashes \o <<"b">>) \o <<" ">> \o VarRef(Str.dashes \o <<"c">>),
              VarRef(Str.dashes \o <<"c">>) \o <<" ">> \o VarRef(Str.dashes \o <<"c">>)}

\* The registry that declares each name n with f[n] # <<>> under :root with the
\* value f[n] and, when themed, before it under .dark with the value #eee.
RegistryOf(f, themed) ==
    [n \in {m \in Names : f[m] # <<>>} |->
        (IF themed THEN <<Declaration(n, Str.hexEee, "a.css", 0, Str.dotDark)>> ELSE <<>>)
            \o <<Declaration(n, f[n], "a.css", 1, Str.root)>>]

ResolveRegistries ==
    {RegistryOf(f, themed) : f \in [Names -> ResolveValues \cup {<<>>}], themed \in BOOLEAN}

\* The activation record of resolveNestedVariables(value, visitedVars) at its start.
Frame(value, visitedVars) ==
    [value |-> value, resolvedValue |-> value, lastIndex |-> 1,
     visitedVars |-> visitedVars, match |-> <<>>]

\* No resolution is observed.
ResolverIdle ==
    /\ callStack = <<>>
    /\ resolvePc = "idle"
    /\ resolveAsked = <<>>
    /\ resolveResult = <<>>
    /\ circularDetected = FALSE

InitResolve ==
    /\ cssVariableRegistry \in ResolveRegistries
    /\ cssClassColorRegistry = EmptyRegistry
    /\ ResolverIdle
    /\ CorpusIdle
    /\ CacheIdle
    /\ ColorIdle

top == callStack[Len(callStack)]

topMatch == NextVarMatch(top.value, top.lastIndex)

topMatchEnd == VarMatchEnd(top.value, topMatch)

topMatchName == VarMatchName(top.value, topMatch)

\* The conditions of the loop of the running call: line 570 finds no further
\* reference (CanReturn); line 574 finds the reference in visitedVars (CanAbort);
\* line 581 finds no declaration for it (CanSkip); none of these (CanCall).
CanReturn == topMatch = 0

CanAbort == topMatch # 0 /\ CircularReference(topMatchName, top.visitedVars)

CanSkip ==
    /\ topMatch # 0
    /\ ~CircularReference(topMatchName, top.visitedVars)
    /\ ~HasDeclarations(cssVariableRegistry, topMatchName)

CanCall ==
    /\ topMatch # 0
    /\ ~CircularReference(topMatchName, top.visitedVars)
    /\ HasDeclarations(cssVariableRegistry, topMatchName)

ResolveCanStep == CanReturn \/ CanAbort \/ CanSkip \/ CanCall

\* Lines 624-635 of collectCSSVariableReference: the declarations of
\* variableName are sorted in place and the value of the first is resolved.
ResolveStart(variableName) ==
    /\ resolvePc = "idle"
    /\ HasDeclarations(cssVariableRegistry, variableName)
    /\ cssVariableRegistry' = SortedInPlace(cssVariableRegistry, {variableName})
    /\ resolveAsked' = FirstBySpecificity(cssVariableRegistry[variableName])
    /\ callStack' = <<Frame(FirstBySpecificity(cssVariableRegistry[variableName]).value, {})>>
    /\ resolvePc' = "running"
    /\ UNCHANGED <<cssClassColorRegistry, resolveResult, circularDetected>>
    /\ UNCHANGED <<corpusVars, cacheVars, colorVars>>

\* The running call returns v: to its caller, which substitutes it for the
\* reference it was resolving (line 598), or out of the outermost call.
ReturnValue(v) ==
    IF Len(callStack) = 1
    THEN /\ callStack' = <<>>
         /\ resolveResult' = v
         /\ resolvePc' = "done"
    ELSE /\ callStack' =
                [SubSeq(callStack, 1, Len(callStack) - 1)
                    EXCEPT ![Len(callStack) - 1].resolvedValue =
                        ReplaceFirst(@, callStack[Len(callStack) - 1].match, v)]
         /\ UNCHANGED <<resolveResult, resolvePc>>

\* Lines 580-595: the referenced variable has declarations; they are sorted in
\* place and the value of the first is resolved in a nested call.
ResolveCall ==
    /\ resolvePc = "running"
    /\ CanCall
    /\ cssVariableRegistry' = SortedInPlace(cssVariableRegistry, {topMatchName})
    /\ callStack' =
            [callStack EXCEPT ![Len(callStack)].lastIndex = topMatchEnd + 1,
                              ![Len(callStack)].match = SubSeq(top.value, topMatch, topMatchEnd)]
                \o <<Frame(FirstBySpecificity(cssVariableRegistry[topMatchName]).value,
                           top.visitedVars \cup {topMatchName})>>
    /\ UNCHANGED <<cssClassColorRegistry, resolvePc, resolveAsked, resolveResult,
                   circularDetected>>
    /\ UNCHANGED <<corpusVars, cacheVars, colorVars>>

\* Lines 580-583: the referenced variable has no declaration; the loop continues.
ResolveSkip ==
    /\ resolvePc = "running"
    /\ CanSkip
    /\ callStack' = [callStack EXCEPT ![Len(callStack)].lastIndex = topMatchEnd + 1]
    /\ UNCHANGED <<cssVariableRegistry, cssClassColorRegistry, resolvePc, resolveAsked,
                   resolveResult, circularDetected>>
    /\ UNCHANGED <<corpusVars, cacheVars, colorVars>>

\* Lines 573-577: the referenced variable is in visitedVars; the call returns
\* the value it was given.
ResolveAbort ==
    /\ resolvePc = "running"
    /\ CanAbort
    /\ circularDetected' = TRUE
    /\ ReturnValue(top.value)
    /\ UNCHANGED <<cssVariableRegistry, cssClassColorRegistry, resolveAsked>>
    /\ UNCHANGED <<corpusVars, cacheVars, colorVars>>

\* Line 601: no further reference; the call returns resolvedValue.
ResolveReturn ==
    /\ resolvePc = "running"
    /\ CanReturn
    /\ ReturnValue(top.resolvedValue)
    /\ UNCHANGED <<cssVariableRegistry, cssClassColorRegistry, resolveAsked,
                   circularDetected>>
    /\ UNCHANGED <<corpusVars, cacheVars, colorVars>>

NextResolve ==
    \/ \E variableName \in Names : ResolveStart(variableName)
    \/ ResolveCall
    \/ ResolveSkip
    \/ ResolveAbort
    \/ ResolveReturn

SpecResolve == InitResolve /\ [][NextResolve]_vars

----------------------------------------------------------------------------
(* Claims on the resolver *)

\* What is left of the run of the calls on stack, call by call from the
\* outermost: for each call the characters of its value the loop has not yet
\* passed, plus one; 0 below the running call.
Rank(stack) ==
    [d \in 1..(MaxNames + 2) |->
        IF d <= Len(stack) THEN Len(stack[d].value) - stack[d].lastIndex + 2 ELSE 0]

\* r comes before s in the lexicographic order, which is well-founded.
LexLess(r, s) ==
    \E d \in DOMAIN s : r[d] < s[d] /\ \A k \in 1..(d - 1) : r[k] = s[k]

\* C7: for every registry over the names, cyclic ones included, a started
\* resolution terminates (each of its steps decreases Rank, so it takes no
\* infinite number of them, and a running resolution always has a call on
\* the stack and a step to take), and the number of nested calls of resolveNestedVariables never
\* exceeds the number of distinct property names in the registry plus one.
C7_ResolutionTerminatesWithinDepth ==
    /\ [](Len(callStack) <= Cardinality(DOMAIN cssVariableRegistry) + 1)
    /\ [](resolvePc = "running" => Len(callStack) >= 1 /\ ResolveCanStep)
    /\ [][resolvePc = "running" => LexLess(Rank(callStack'), Rank(callStack))]_vars

\* The cycle guard is about to fire in the deepest call the bound allows, in a
\* registry in which every name is declared.
C7_Witness ==
    /\ resolvePc = "running"
    /\ Cardinality(DOMAIN cssVariableRegistry) = MaxNames
    /\ Len(callStack) = MaxNames + 1
    /\ topMatch # 0
    /\ CircularReference(topMatchName, top.visitedVars)

\* C8: whenever a resolution ran into a reference cycle, the value returned
\* for the property asked for is its raw value, nothing substituted.
C8_CycleReturnsRawValue ==
    (resolvePc = "done" /\ circularDetected) => resolveResult = resolveAsked.value

----------------------------------------------------------------------------
(* The registry at work: the files of the workspace change, the watcher's  *)
(* handlers and the index runs parse them, and documents are scanned.      *)

MaxDeclarations == 2
MaxIndexRuns == 1
MaxEvents == 1


\* The texts of the stylesheets:
\*   root          :root{--brand:#111;}
\*   rootEee       :root{--brand:#eee;}
\*   rootAndClass  the same with a second line, .btn{color:var(--brand);}
\*   dark          .dark{--brand:#eee;}
\*   themeDark     [data-theme="dark"]{--brand:#eee;--accent:0 0% 50%;}
Css ==
    LET root == <<":", "r", "o", "o", "t", "{", "-", "-", "b", "r", "a", "n", "d", ":",
                  "#", "1", "1", "1", ";", "}">>
    IN  [root |-> root,
         rootEee |-> <<":", "r", "o", "o", "t", "{", "-", "-", "b", "r", "a", "n", "d", ":",
                       "#", "e", "e", "e", ";", "}">>,
         rootAndClass |->
             root \o <<"\n", ".", "b", "t", "n", "{", "c", "o", "l", "o", "r", ":",
                       "v", "a", "r", "(", "-", "-", "b", "r", "a", "n", "d", ")", ";", "}">>,
         dark |-> <<".", "d", "a", "r", "k", "{", "-", "-", "b", "r", "a", "n", "d", ":",
                    "#", "e", "e", "e", ";", "}">>,
         themeDark |->
             Str.themeDark \o <<"{", "-", "-", "b", "r", "a", "n", "d", ":", "#", "e", "e", "e", ";",
                                "-", "-", "a", "c", "c", "e", "n", "t", ":",
                                "0", " ", "0", "%", " ", "5", "0", "%", ";", "}">>]

\* The texts each file may hold, by their names in Css.
FileTexts ==
    [u \in Uris |->
        IF u = "a.css" THEN {"root", "rootEee", "rootAndClass"} ELSE {"dark", "themeDark"}]

\* What parseCSSFile reads off each text.
Extraction ==
    [root |-> Extracted("a.css", Css.root),
     rootEee |-> Extracted("a.css", Css.rootEee),
     rootAndClass |-> Extracted("a.css", Css.rootAndClass),
     dark |-> Extracted("b.css", Css.dark),
     themeDark |-> Extracted("b.css", Css.themeDark)]

\* The texts of the documents:
\*   varAndClass        var(--brand) class="btn"
\*   wrappedAndUtility  hsl(var(--accent)) bg-accent
\*   hex111             #111
\*   hexEee             #eee
\*   hslN, hslaN, rgbN, rgbaN   hsl(var(--n)), hsla(var(--n)), ...
\*   mixed              #111 var(--n) bg-n class="btn"
\*   utilityInClass     class="bg-n"
\*   classTwice         class="btn btn"
Doc ==
    [hex111 |-> Str.hex111,
     hexEee |-> Str.hexEee,
     varAndClass |->
         VarRef(Str.brand) \o <<" ", "c", "l", "a", "s", "s", "=", "\"", "b", "t", "n", "\"">>,
     wrappedAndUtility |->
         <<"h", "s", "l", "(">> \o VarRef(Str.accent)
             \o <<")", " ", "b", "g", "-", "a", "c", "c", "e", "n", "t">>,
     hslN |-> Str.hsl \o <<"(">> \o VarRef(<<"-", "-", "n">>) \o <<")">>,
     hslaN |-> Str.hsla \o <<"(">> \o VarRef(<<"-", "-", "n">>) \o <<")">>,
     rgbN |-> Str.rgb \o <<"(">> \o VarRef(<<"-", "-", "n">>) \o <<")">>,
     rgbaN |-> Str.rgba \o <<"(">> \o VarRef(<<"-", "-", "n">>) \o <<")">>,
     mixed |->
         Str.hex111 \o <<" ">> \o VarRef(<<"-", "-", "n">>)
             \o <<" ", "b", "g", "-", "n", " ",
                  "c", "l", "a", "s", "s", "=", "\"", "b", "t", "n", "\"">>,
     utilityInClass |-> <<"c", "l", "a", "s", "s", "=", "\"", "b", "g", "-", "n", "\"">>,
     classTwice |->
         <<"c", "l", "a", "s", "s", "=", "\"", "b", "t", "n", " ", "b", "t", "n", "\"">>]

\* What the expressions of collectColorData match on each of them.
Found == [document \in DOMAIN Doc |-> Matchers(Doc[document])]

\* The documents that are scanned against the registry.
ScannedDocuments == {"varAndClass", "wrappedAndUtility"}

\* Every array of the registry has at most MaxDeclarations entries.
WithinBound(registry) == \A n \in DOMAIN registry : Len(registry[n]) <= MaxDeclarations

\* The orders in which findFiles may list the files uris.
Listings(uris) ==
    {l \in UNION {[1..k -> uris] : k \in {Cardinality(uris)}} :
        \A i, j \in DOMAIN l : i # j => l[i] # l[j]}

\* activate has called indexWorkspaceCSSFiles, which has cleared the registries
\* and waits for findFiles (lines 119, 546-549).
InitRegistry ==
    /\ cssVariableRegistry = EmptyRegistry
    /\ cssClassColorRegistry = EmptyRegistry
    /\ ResolverIdle
    /\ CacheIdle
    /\ ColorIdle
    /\ files \in {f \in [Uris -> DOMAIN Css \cup {NoFile}] :
                    \A u \in Uris : f[u] \in FileTexts[u] \cup {NoFile}}
    /\ watcherEvents = {}
    /\ indexRuns = <<[pc |-> "findFiles", cssFiles |-> <<>>]>>
    /\ scanResult = NoScan
    /\ removedNames = {}

\* The registries become what parseCSSFile leaves; the names it declares are
\* no longer undeclared.
Parsed(uri) ==
    LET after == parseCSSFile(cssVariableRegistry, cssClassColorRegistry,
                              Extraction[files[uri]])
    IN  /\ WithinBound(after.variables)
        /\ WithinBound(after.classes)
        /\ cssVariableRegistry' = after.variables
        /\ cssClassColorRegistry' = after.classes
        /\ removedNames' = removedNames \ DOMAIN after.variables
        /\ scanResult' = NoScan

\* The command yavcop.reindexCSSFiles calls indexWorkspaceCSSFiles, which
\* clears the registries and asks for the files (lines 546-549).
IndexStart ==
    /\ Len(indexRuns) < MaxIndexRuns
    /\ cssVariableRegistry' = EmptyRegistry
    /\ cssClassColorRegistry' = EmptyRegistry
    /\ indexRuns' = Append(indexRuns, [pc |-> "findFiles", cssFiles |-> <<>>])
    /\ scanResult' = NoScan
    /\ UNCHANGED <<resolverVars, cacheVars, colorVars, files, watcherEvents, removedNames>>

\* The sequence without its entry r.
Without(seq, r) == SubSeq(seq, 1, r - 1) \o SubSeq(seq, r + 1, Len(seq))

\* findFiles answers run r with the files there are, in some order; with no
\* file the run returns (lines 549-551).
IndexFindFiles(r) ==
    /\ indexRuns[r].pc = "findFiles"
    /\ \E cssFiles \in Listings({u \in Uris : files[u] # NoFile}) :
          indexRuns' = IF cssFiles = <<>> THEN Without(indexRuns, r)
                       ELSE [indexRuns EXCEPT ![r] = [pc |-> "parse", cssFiles |-> cssFiles]]
    /\ UNCHANGED <<cssVariableRegistry, cssClassColorRegistry, resolverVars, cacheVars, colorVars, files,
                   watcherEvents, scanResult, removedNames>>

\* The run without the file it has dealt with; it returns behind the last one.
IndexAdvanced(r) ==
    IF Len(indexRuns[r].cssFiles) = 1 THEN Without(indexRuns, r)
    ELSE [indexRuns EXCEPT ![r].cssFiles = Tail(@)]

\* Lines 551-557 for the next file of run r: the document opens and is
\* parsed; a file that is gone fails to open, which is logged.
IndexParse(r) ==
    /\ indexRuns[r].pc = "parse"
    /\ IF files[indexRuns[r].cssFiles[1]] # NoFile
       THEN Parsed(indexRuns[r].cssFiles[1])
       ELSE UNCHANGED <<cssVariableRegistry, cssClassColorRegistry, scanResult, removedNames>>
    /\ indexRuns' = IndexAdvanced(r)
    /\ UNCHANGED <<resolverVars, cacheVars, colorVars, files, watcherEvents>>

\* A file is written: created if there was none, changed otherwise.
FileWrite(uri, text) ==
    /\ Cardinality(watcherEvents) < MaxEvents
    /\ files[uri] # text
    /\ files' = [files EXCEPT ![uri] = text]
    /\ watcherEvents' = watcherEvents
            \cup {[kind |-> IF files[uri] = NoFile THEN "create" ELSE "change", uri |-> uri]}
    /\ UNCHANGED <<cssVariableRegistry, cssClassColorRegistry, resolverVars, cacheVars, colorVars, indexRuns,
                   scanResult, removedNames>>

\* A file is deleted.
FileDelete(uri) ==
    /\ Cardinality(watcherEvents) < MaxEvents
    /\ files[uri] # NoFile
    /\ files' = [files EXCEPT ![uri] = NoFile]
    /\ watcherEvents' = watcherEvents \cup {[kind |-> "delete", uri |-> uri]}
    /\ UNCHANGED <<cssVariableRegistry, cssClassColorRegistry, resolverVars, cacheVars, colorVars, indexRuns,
                   scanResult, removedNames>>

\* cssWatcher.onDidChange and onDidCreate (lines 123-137): the document opens
\* and is parsed into the registries as they are; a file that is gone fails
\* to open and nothing is parsed.
onDidChange(event) ==
    /\ event.kind \in {"change", "create"}
    /\ IF files[event.uri] # NoFile
       THEN Parsed(event.uri)
       ELSE UNCHANGED <<cssVariableRegistry, cssClassColorRegistry, scanResult, removedNames>>
    /\ watcherEvents' = watcherEvents \ {event}
    /\ UNCHANGED <<resolverVars, cacheVars, colorVars, files, indexRuns>>

\* cssWatcher.onDidDelete (lines 138-150).
onDidDelete(event) ==
    /\ event.kind = "delete"
    /\ cssVariableRegistry' = WithoutDeclarationsOf(cssVariableRegistry, event.uri)
    /\ removedNames' = DOMAIN cssVariableRegistry \ DOMAIN cssVariableRegistry'
    /\ scanResult' = NoScan
    /\ watcherEvents' = watcherEvents \ {event}
    /\ UNCHANGED <<cssClassColorRegistry, resolverVars, cacheVars, colorVars, files, indexRuns>>

\* A document is scanned (computeColorData, line 283): collectColorData
\* returns its results and leaves sorted the arrays it read.
Scan(document) ==
    LET scan == collectColorData(cssVariableRegistry, cssClassColorRegistry, Found[document])
    IN  /\ scanResult' = [document |-> document, results |-> scan.results, ran |-> TRUE]
        /\ cssVariableRegistry' = SortedInPlace(cssVariableRegistry, scan.sorted)
        /\ UNCHANGED <<cssClassColorRegistry, resolverVars, cacheVars, colorVars, files, watcherEvents, indexRuns,
                       removedNames>>

NextRegistry ==
    \/ IndexStart
    \/ \E r \in DOMAIN indexRuns : IndexFindFiles(r)
    \/ \E r \in DOMAIN indexRuns : IndexParse(r)
    \/ \E uri \in Uris : \E text \in FileTexts[uri] : FileWrite(uri, text)
    \/ \E uri \in Uris : FileDelete(uri)
    \/ \E event \in watcherEvents : onDidChange(event)
    \/ \E event \in watcherEvents : onDidDelete(event)
    \/ \E document \in ScannedDocuments : Scan(document)

SpecRegistry == InitRegistry /\ [][NextRegistry]_vars

----------------------------------------------------------------------------
(* Claims on the registry *)

\* The selectors that scope a declaration to the dark theme.
ThemeScopedSelectors == {Str.dotDark, Str.themeDark, Str.modeDark}

\* The occurrences of the last scan that refer to the property name by a
\* plain var() reference.
ReferencesTo(name) ==
    {k \in DOMAIN scanResult.results :
        /\ scanResult.results[k].variableName = name
        /\ ~scanResult.results[k].isWrappedInFunction
        /\ ~scanResult.results[k].isTailwindClass}

\* C9: when a property has exactly two declarations, one under :root and one
\* under a theme-scoped selector, in either order, every var() reference to it
\* that a scan reports has the color of the value declared under :root.
C9_RootDeclarationIsDefault ==
    \A name \in DOMAIN cssVariableRegistry :
        LET declarations == cssVariableRegistry[name]
            roots == {i \in DOMAIN declarations : declarations[i].selector = Str.root}
            themed == {i \in DOMAIN declarations :
                          declarations[i].selector \in ThemeScopedSelectors}
        IN  (Len(declarations) = 2 /\ roots # {} /\ themed # {} /\ scanResult.ran) =>
                \A k \in ReferencesTo(name) :
                    scanResult.results[k].vscodeColor
                        = parseColor(declarations[CHOOSE i \in roots : TRUE].value).vscodeColor

\* The handler of a deleted file takes a step for the file uri.
DeleteHandled(uri) ==
    /\ [kind |-> "delete", uri |-> uri] \in watcherEvents
    /\ [kind |-> "delete", uri |-> uri] \notin watcherEvents'

\* The declarations of registry[key] that do not come from the file uri.
FromOtherFiles(registry, key, uri) ==
    IF key \in DOMAIN registry THEN SelectSeq(registry[key], LAMBDA d : d.uri # uri)
    ELSE <<>>

----------------------------------------------------------------------------
(* The analysis cache: ensureColorData, the handlers that call it or clear *)
(* the cache, and the computations that settle.                            *)

MaxComputations == 2
MaxVersion == 2
MaxObjects == 2

\* The texts a document may hold, by their names in Doc.
EditedTexts == {"hex111", "hexEee"}

\* A document is opened for the uri: a new TextDocument object at version 1.
Opened(doc, text) == [open |-> TRUE, versions |-> Append(doc.versions, 1), text |-> text]

\* The open document after a change of its text.
Edited(doc, text) == [doc EXCEPT !.versions[Len(doc.versions)] = @ + 1, !.text = text]

Closed(doc) == [doc EXCEPT !.open = FALSE]

\* shouldDecorate (lines 234-247) under the setting config.
shouldDecorate(config, document) ==
    /\ config # {}
    /\ ("*" \in config \/ LanguageId(document) \in config)

\* The handlers of one turn of the event loop have run to their end: no
\* computation waits only for its microtasks.  A computation that probes
\* waits for the command vscode.executeDocumentColorProvider.
Turn ==
    \A c \in DOMAIN computations :
        computations[c].status = "running" => computations[c].kind = "probing"

\* What a call of ensureColorData or refreshEditor for the document doc gave:
\* the array of the computation from, or none.
Answered(document, doc, from, how) ==
    lastRequest' = [lastRequest EXCEPT ![document] =
                        [object |-> Object(doc), version |-> Version(doc),
                         from |-> from, how |-> how]]

\* Map.delete(key) on pendingColorComputations.
Deleted(pending, key) == [pending EXCEPT ![key] = NoComputation]

\* clearColorCacheForDocument (lines 322-326).
clearColorCacheForDocument(document) ==
    /\ colorDataCache' = [colorDataCache EXCEPT ![document] = NoEntry]
    /\ pendingColorComputations' = Deleted(pendingColorComputations, document)

\* How the computation goes on behind the synchronous part of
\* computeColorData: getText or collectColorData throws; or
\* getNativeColorRangeKeys finds isProbingNativeColors set and returns the
\* empty set at once (lines 294-296); or it asks the native provider.
Kind(throws) ==
    IF throws THEN "throwing"
    ELSE IF isProbingNativeColors THEN "immediate" ELSE "probing"

\* computeColorData up to its await (lines 282-284, 294-299) for the document
\* doc, with the scan that collectColorData returns on the registry
\* variables: the promise it returns is the new entry of computations.
computeColorData(variables, document, doc, throws, scan) ==
    /\ Len(computations) < MaxComputations
    /\ computations' =
            Append(computations,
                   [key |-> document, object |-> Object(doc), version |-> Version(doc),
                    data |-> IF throws THEN <<>> ELSE scan.results,
                    kind |-> Kind(throws), status |-> "running", probe |-> "none",
                    native |-> {}])
    /\ isProbingNativeColors' = (isProbingNativeColors \/ ~throws)
    /\ cssVariableRegistry' =
            IF throws THEN variables ELSE SortedInPlace(variables, scan.sorted)

\* A lookup that finds no entry.
HitNever(document, doc) == FALSE

\* cached && cached.version === document.version (line 257).
Hit(document, doc) ==
    /\ colorDataCache[document] # NoEntry
    /\ colorDataCache[document].version = Version(doc)

\* ensureColorData (lines 249-279) for the document doc under the setting
\* config, called when the registries are variables and classes.
ensureColorData(variables, classes, document, doc, config, throws) ==
    IF ~shouldDecorate(config, document)
    THEN /\ clearColorCacheForDocument(document)
         /\ Answered(document, doc, NoComputation, "empty")
         /\ cssVariableRegistry' = variables
         /\ UNCHANGED <<computations, isProbingNativeColors>>
    ELSE IF Hit(document, doc)
    THEN /\ Answered(document, doc, colorDataCache[document].from, "cached")
         /\ cssVariableRegistry' = variables
         /\ UNCHANGED <<colorDataCache, pendingColorComputations, computations,
                        isProbingNativeColors>>
    ELSE IF pendingColorComputations[document] # NoComputation
    THEN /\ Answered(document, doc, pendingColorComputations[document], "pending")
         /\ cssVariableRegistry' = variables
         /\ UNCHANGED <<colorDataCache, pendingColorComputations, computations,
                        isProbingNativeColors>>
    ELSE /\ computeColorData(variables, document, doc, throws,
                             collectColorData(variables, classes, Found[doc.text]))
         /\ pendingColorComputations' =
                [pendingColorComputations EXCEPT ![document] = Len(computations) + 1]
         /\ Answered(document, doc, Len(computations) + 1, "started")
         /\ UNCHANGED colorDataCache

\* refreshEditor (lines 221-232) for the editor of the document doc, called
\* when the registries are variables and classes; clearDecorationsForEditor
\* (lines 1087-1097) clears the cache.
refreshEditor(variables, classes, document, doc, config) ==
    IF shouldDecorate(config, document)
    THEN \E throws \in BOOLEAN :
            ensureColorData(variables, classes, document, doc, config, throws)
    ELSE /\ clearColorCacheForDocument(document)
         /\ Answered(document, doc, NoComputation, "refused")
         /\ cssVariableRegistry' = variables
         /\ UNCHANGED <<computations, isProbingNativeColors>>

\* The extension is activated, no stylesheet is in the workspace, and a
\* document of a configured language is open.
InitCache ==
    /\ cssVariableRegistry = EmptyRegistry
    /\ cssClassColorRegistry = EmptyRegistry
    /\ ResolverIdle
    /\ CorpusIdle
    /\ ColorIdle
    /\ documents \in [Documents -> {Opened(Unopened, text) : text \in EditedTexts}]
    /\ languages = {"html"}
    /\ colorDataCache = [document \in Documents |-> NoEntry]
    /\ pendingColorComputations = [document \in Documents |-> NoComputation]
    /\ computations = <<>>
    /\ isProbingNativeColors = FALSE
    /\ deactivated = FALSE
    /\ lastRequest = [document \in Documents |-> NoRequest]

\* A caller asks for the analysis of the open document: provideColorHover
\* (line 857), provideDocumentColors (line 1116) or the exported
\* ensureColorData (line 1611).
provideColorHover(document) ==
    /\ ~deactivated
    /\ Turn
    /\ documents[document].open
    /\ \E throws \in BOOLEAN :
          ensureColorData(cssVariableRegistry, cssClassColorRegistry,
                          document, documents[document], languages, throws)
    /\ UNCHANGED <<cssClassColorRegistry, resolverVars, corpusVars, colorVars, documents, languages,
                   deactivated>>

\* onDidChangeActiveTextEditor (lines 193-197).
onDidChangeActiveTextEditor(document) ==
    /\ ~deactivated
    /\ Turn
    /\ documents[document].open
    /\ refreshEditor(cssVariableRegistry, cssClassColorRegistry,
                     document, documents[document], languages)
    /\ UNCHANGED <<cssClassColorRegistry, resolverVars, corpusVars, colorVars, documents, languages,
                   deactivated>>

\* The text of the open document changes, which raises its version;
\* onDidChangeTextDocument (lines 199-204) refreshes the editor that shows
\* the document, if one does.
onDidChangeTextDocument(document, text, visible) ==
    /\ ~deactivated
    /\ Turn
    /\ documents[document].open
    /\ Version(documents[document]) < MaxVersion
    /\ documents' = [documents EXCEPT ![document] = Edited(@, text)]
    /\ IF visible
       THEN refreshEditor(cssVariableRegistry, cssClassColorRegistry,
                          document, Edited(documents[document], text), languages)
       ELSE UNCHANGED <<colorDataCache, pendingColorComputations, computations,
                        isProbingNativeColors, lastRequest, cssVariableRegistry>>
    /\ UNCHANGED <<cssClassColorRegistry, resolverVars, corpusVars, colorVars, languages, deactivated>>

\* onDidCloseTextDocument (lines 205-207).
onDidCloseTextDocument(document) ==
    /\ ~deactivated
    /\ Turn
    /\ documents[document].open
    /\ documents' = [documents EXCEPT ![document] = Closed(@)]
    /\ clearColorCacheForDocument(document)
    /\ lastRequest' = [lastRequest EXCEPT ![document] = NoRequest]
    /\ UNCHANGED <<cssVariableRegistry, cssClassColorRegistry, resolverVars, corpusVars, colorVars,
                   languages, computations, isProbingNativeColors, deactivated>>

\* A document is opened for the uri again; no handler of the extension runs.
OpenTextDocument(document, text) ==
    /\ ~deactivated
    /\ Turn
    /\ ~documents[document].open
    /\ Object(documents[document]) < MaxObjects
    /\ documents' = [documents EXCEPT ![document] = Opened(@, text)]
    /\ UNCHANGED <<cssVariableRegistry, cssClassColorRegistry, resolverVars, corpusVars, colorVars,
                   languages, colorDataCache, pendingColorComputations, computations,
                   isProbingNativeColors, deactivated, lastRequest>>

\* The setting yavcop.languages becomes config; onDidChangeConfiguration
\* (lines 208-213) registers the providers anew and refreshes the visible
\* editor, which shows the document visible, if there is one.
onDidChangeConfiguration(config, visible) ==
    /\ ~deactivated
    /\ Turn
    /\ config # languages
    /\ languages' = config
    /\ IF visible # NoDocument
       THEN refreshEditor(cssVariableRegistry, cssClassColorRegistry,
                          visible, documents[visible], config)
       ELSE UNCHANGED <<colorDataCache, pendingColorComputations, computations,
                        isProbingNativeColors, lastRequest, cssVariableRegistry>>
    /\ UNCHANGED <<cssClassColorRegistry, resolverVars, corpusVars, colorVars, documents, deactivated>>

\* deactivate (lines 217-219): clearAllDecorations (lines 1099-1108) clears
\* both maps; the subscriptions are disposed, the computations go on.
deactivate ==
    /\ ~deactivated
    /\ Turn
    /\ deactivated' = TRUE
    /\ colorDataCache' = [document \in Documents |-> NoEntry]
    /\ pendingColorComputations' = [document \in Documents |-> NoComputation]
    /\ UNCHANGED <<cssVariableRegistry, cssClassColorRegistry, resolverVars, corpusVars, colorVars,
                   documents, languages, computations, isProbingNativeColors, lastRequest>>

\* allColorData without the occurrences whose range the native provider
\* reported (lines 286-290).
WithoutNative(allColorData, nativeRanges) ==
    SelectSeq(allColorData, LAMBDA data : data.range \notin nativeRanges)

\* The ranges of the occurrences.
RangesOf(allColorData) == {allColorData[k].range : k \in DOMAIN allColorData}

\* An entry with the version that the computation c started at.
StoredAtStart(c, data) ==
    [version |-> computations[c].version, data |-> data, from |-> c]

\* The entry that line 268 sets for the computation c: the version is the
\* one its TextDocument object shows when the computation settles.
Stored(c, data) ==
    [version |-> documents[computations[c].key].versions[computations[c].object],
     data |-> data, from |-> c]

\* The then-handler of lines 267-271 with the array computeColorData returned;
\* probe is how the command of the native provider ended: "returned",
\* "failed", or "none" when it was not asked, and nativeRanges is what it
\* reported.
thenHandler(c, data, probe, nativeRanges) ==
    /\ colorDataCache' = [colorDataCache EXCEPT ![computations[c].key] = Stored(c, data)]
    /\ pendingColorComputations' = Deleted(pendingColorComputations, computations[c].key)
    /\ computations' = [computations EXCEPT ![c].status = "resolved", ![c].data = data,
                                            ![c].probe = probe,
                                            ![c].native = nativeRanges]

\* A computeColorData that returns nothing when the command failed.
DataAfterProbeOrNothing(allColorData, probe, nativeRanges) ==
    IF probe = "failed" THEN <<>> ELSE WithoutNative(allColorData, nativeRanges)

\* What computeColorData returns behind its await (lines 284-290): the catch
\* of lines 310-312 turns a failure of the command into the empty set.
DataAfterProbe(allColorData, probe, nativeRanges) ==
    IF probe = "failed" THEN WithoutNative(allColorData, {})
    ELSE WithoutNative(allColorData, nativeRanges)

\* The command vscode.executeDocumentColorProvider returns to the
\* computation c (lines 300-309, 313-315): computeColorData filters its
\* occurrences and resolves.
ProbeReturned(c, nativeRanges) ==
    /\ Turn
    /\ computations[c].status = "running"
    /\ computations[c].kind = "probing"
    /\ isProbingNativeColors' = FALSE
    /\ thenHandler(c, DataAfterProbe(computations[c].data, "returned", nativeRanges), "returned",
                   nativeRanges)
    /\ UNCHANGED <<cssVariableRegistry, cssClassColorRegistry, resolverVars, corpusVars, colorVars,
                   documents, languages, deactivated, lastRequest>>

\* The command fails for the computation c: getNativeColorRangeKeys logs the
\* failure, resets the flag and returns the empty set (lines 310-315).
ProbeFailed(c) ==
    /\ Turn
    /\ computations[c].status = "running"
    /\ computations[c].kind = "probing"
    /\ isProbingNativeColors' = FALSE
    /\ thenHandler(c, DataAfterProbe(computations[c].data, "failed", {}), "failed", {})
    /\ UNCHANGED <<cssVariableRegistry, cssClassColorRegistry, resolverVars, corpusVars, colorVars,
                   documents, languages, deactivated, lastRequest>>

\* The computation c, which did not probe, resolves with all it collected
\* (lines 286-288).
ScanResolved(c) ==
    /\ computations[c].status = "running"
    /\ computations[c].kind = "immediate"
    /\ thenHandler(c, computations[c].data, "none", {})
    /\ UNCHANGED <<cssVariableRegistry, cssClassColorRegistry, resolverVars, corpusVars, colorVars,
                   documents, languages, isProbingNativeColors, deactivated, lastRequest>>

\* A catch-handler that leaves the record of its computation.
PendingAfterCatchKept(pending, key) == pending

\* pendingColorComputations behind the catch-handler (line 274).
PendingAfterCatch(pending, key) == Deleted(pending, key)

\* The catch-handler of lines 273-276 for the computation c, whose scan threw.
catchHandler(c) ==
    /\ computations[c].status = "running"
    /\ computations[c].kind = "throwing"
    /\ pendingColorComputations' =
            PendingAfterCatch(pendingColorComputations, computations[c].key)
    /\ computations' = [computations EXCEPT ![c].status = "rejected"]
    /\ UNCHANGED <<cssVariableRegistry, cssClassColorRegistry, resolverVars, corpusVars, colorVars,
                   documents, languages, colorDataCache, isProbingNativeColors, deactivated,
                   lastRequest>>

NextCache ==
    \/ \E document \in Documents : provideColorHover(document)
    \/ \E document \in Documents : onDidChangeActiveTextEditor(document)
    \/ \E document \in Documents : \E text \in EditedTexts : \E visible \in BOOLEAN :
          onDidChangeTextDocument(document, text, visible)
    \/ \E document \in Documents : onDidCloseTextDocument(document)
    \/ \E document \in Documents : \E text \in EditedTexts : OpenTextDocument(document, text)
    \/ \E config \in Configurations :
          \E visible \in {document \in Documents : documents[document].open} \cup {NoDocument} :
             onDidChangeConfiguration(config, visible)
    \/ deactivate
    \/ \E c \in DOMAIN computations :
          \E nativeRanges \in SUBSET RangesOf(computations[c].data) :
             ProbeReturned(c, nativeRanges)
    \/ \E c \in DOMAIN computations : ProbeFailed(c)
    \/ \E c \in DOMAIN computations : ScanResolved(c)
    \/ \E c \in DOMAIN computations : catchHandler(c)

SpecCache == InitCache /\ [][NextCache]_vars

----------------------------------------------------------------------------
(* Claims on the analysis cache *)

\* The request was answered with the array of a computation.
IsAnswer(request) == request.how \in {"cached", "pending", "started"}

\* C1: when ensureColorData answers a request for a document and the request
\* before it for the same document, with no close and no refusal in between,
\* was made for the same TextDocument object at the same version and was
\* answered with an array that has been stored since, then the later request
\* starts no scan and is answered with that same array.
C1_SecondRequestReturnsStoredResult ==
    [][\A document \in Documents :
          (/\ lastRequest'[document] # lastRequest[document]
           /\ IsAnswer(lastRequest[document])
           /\ IsAnswer(lastRequest'[document])
           /\ lastRequest'[document].object = lastRequest[document].object
           /\ lastRequest'[document].version = lastRequest[document].version
           /\ computations[lastRequest[document].from].status = "resolved")
          => /\ lastRequest'[document].from = lastRequest[document].from
             /\ computations' = computations]_vars

\* C2: while a computation for a uri and a version is running, every request
\* that ensureColorData answers for that uri at that version is answered with
\* the array of that computation and starts no computation.
C2_RequestJoinsComputationInFlight ==
    [][\A document \in Documents : \A c \in DOMAIN computations :
          (/\ lastRequest'[document] # lastRequest[document]
           /\ IsAnswer(lastRequest'[document])
           /\ computations[c].status = "running"
           /\ computations[c].key = document
           /\ computations[c].version = lastRequest'[document].version)
          => /\ lastRequest'[document].from = c
             /\ Len(computations') = Len(computations)]_vars

\* C3: a request that finds no entry of its version in the cache is answered
\* with the array of a scan of the text that its TextDocument object had at
\* the version of the request.
C3_MissYieldsScanOfRequestedRevision ==
    \A document \in Documents :
        lastRequest[document].how \in {"pending", "started"} =>
            /\ computations[lastRequest[document].from].object = lastRequest[document].object
            /\ computations[lastRequest[document].from].version = lastRequest[document].version

\* C4: from the close of a document to the next request for its analysis the
\* cache has no entry for it.
C4_NoEntryFromCloseToNextRequest ==
    \A document \in Documents :
        lastRequest[document] = NoRequest => colorDataCache[document] = NoEntry

\* The computation c settles with a failure in this step.
Fails(c) == computations[c].status = "running" /\ computations'[c].status = "rejected"

\* The computation c settles with its array in this step.
Succeeds(c) == computations[c].status = "running" /\ computations'[c].status = "resolved"

\* C5: a step that sets the entry of a document in the cache is the success
\* of a computation for that document and stores the array the computation
\* returned; a step in which a computation fails leaves the cache as it was,
\* leaves no in-flight record for its document, and leaves the requests that
\* were answered with the computation with it, which delivers no array.
C5_CacheWrittenOnlyBySuccessfulScan ==
    [][/\ \A document \in Documents :
             (/\ colorDataCache'[document] # colorDataCache[document]
              /\ colorDataCache'[document] # NoEntry)
             => \E c \in DOMAIN computations :
                   /\ Succeeds(c)
                   /\ computations[c].key = document
                   /\ colorDataCache'[document].from = c
                   /\ colorDataCache'[document].data = computations'[c].data
       /\ \A c \in DOMAIN computations :
             Fails(c) =>
                /\ colorDataCache' = colorDataCache
                /\ pendingColorComputations'[computations[c].key] = NoComputation
                /\ lastRequest' = lastRequest
                /\ computations'[c].data = <<>>]_vars

\* A scan has failed for a document whose entry, stored before, is in the
\* cache, and the request that started the scan is the last one.
C5_Witness ==
    \E c \in DOMAIN computations :
        /\ computations[c].status = "rejected"
        /\ colorDataCache[computations[c].key] # NoEntry
        /\ colorDataCache[computations[c].key].from # c
        /\ pendingColorComputations[computations[c].key] = NoComputation
        /\ lastRequest[computations[c].key].from = c

\* C6: every running computation is the in-flight record of its document.
C6_RunningComputationIsOnRecord ==
    \A c \in DOMAIN computations :
        computations[c].status = "running" =>
            pendingColorComputations[computations[c].key] = c

----------------------------------------------------------------------------
(* Further claims on the registry *)

\* The mapping has a declaration whose source is the file uri.
HasEntryOf(registry, uri) ==
    \E key \in DOMAIN registry : \E i \in DOMAIN registry[key] : registry[key][i].uri = uri

\* C11: when the handler of a deleted file has run, neither the mapping of the
\* properties nor the mapping of the class colors has a declaration whose
\* source is that file.
C11_DeletedFileHasNoEntry ==
    [][\A uri \in Uris :
          DeleteHandled(uri) =>
             /\ ~HasEntryOf(cssVariableRegistry', uri)
             /\ ~HasEntryOf(cssClassColorRegistry', uri)]_vars

\* The declarations of registry[key] that come from the file uri.
FromFile(registry, key, uri) ==
    IF key \in DOMAIN registry THEN SelectSeq(registry[key], LAMBDA d : d.uri = uri)
    ELSE <<>>

\* The elements of the sequence.
Elements(seq) == {seq[i] : i \in DOMAIN seq}

\* The property declarations that parseCSSFile extracts from the file uri
\* under the name, with the files fs: none when the file is gone.
ExtractedFor(fs, uri, name) ==
    IF fs[uri] = NoFile THEN <<>>
    ELSE SelectSeq(Extraction[fs[uri]].declarations, LAMBDA d : d.name = name)

\* The rules of the file uri for the class name.
RulesFor(fs, uri, className) ==
    IF fs[uri] = NoFile THEN <<>>
    ELSE SelectSeq(Extraction[fs[uri]].rules, LAMBDA rule : rule.className = className)

\* The names of the properties that the files fs declare.
DeclaredNames(fs) ==
    UNION {{d.name : d \in Elements(Extraction[fs[uri]].declarations)} :
              uri \in {u \in Uris : fs[u] # NoFile}}

\* The mappings hold what the files fs declare, each declaration once: under
\* every name the declarations of every file are those extracted from it, as
\* many, and every class has from every file at most one declaration for each
\* of its rules there.
HoldsTheCorpus(variables, classes, fs) ==
    /\ \A name \in DOMAIN variables \cup DeclaredNames(fs) : \A uri \in Uris :
          /\ Len(FromFile(variables, name, uri)) = Len(ExtractedFor(fs, uri, name))
          /\ Elements(FromFile(variables, name, uri)) = Elements(ExtractedFor(fs, uri, name))
    /\ \A className \in DOMAIN classes : \A uri \in Uris :
          Len(FromFile(classes, className, uri)) <= Len(RulesFor(fs, uri, className))

\* A call of indexWorkspaceCSSFiles returns in this step.
IndexCompletes == Len(indexRuns') < Len(indexRuns)

\* C12: when a call of indexWorkspaceCSSFiles returns and no event of the
\* watcher waits for its handler, the two mappings hold exactly what the
\* files of the workspace declare, each declaration once.
C12_ReindexHoldsExactlyTheCorpus ==
    [][(IndexCompletes /\ watcherEvents' = {}) =>
          HoldsTheCorpus(cssVariableRegistry', cssClassColorRegistry', files')]_vars

\* The file uri is parsed in this step: by the handler of a change or create
\* event (lines 123-137) or by a call of indexWorkspaceCSSFiles (line 554).
ParsesFile(uri) ==
    /\ files[uri] # NoFile
    /\ \/ \E event \in watcherEvents :
             /\ event.kind \in {"change", "create"}
             /\ event.uri = uri
             /\ event \notin watcherEvents'
       \/ \E r \in DOMAIN indexRuns :
             /\ indexRuns[r].pc = "parse"
             /\ indexRuns[r].cssFiles[1] = uri
             /\ indexRuns' = IndexAdvanced(r)

\* C13: a parse of a file adds to what the registry holds from that file one
\* copy of every property declaration and of every class-color declaration of
\* the file, whatever the registry held from it before, and leaves what comes
\* from the other files; k parses in a row so leave k copies.
C13_ParseAppendsWithoutMerging ==
    [][\A uri \in Uris :
          ParsesFile(uri) =>
             /\ \A name \in DOMAIN cssVariableRegistry' \cup DeclaredNames(files) :
                   /\ Len(FromFile(cssVariableRegistry', name, uri))
                         = Len(FromFile(cssVariableRegistry, name, uri))
                              + Len(ExtractedFor(files, uri, name))
                   /\ Elements(FromFile(cssVariableRegistry', name, uri))
                         = Elements(FromFile(cssVariableRegistry, name, uri))
                              \cup Elements(ExtractedFor(files, uri, name))
                   /\ Len(FromOtherFiles(cssVariableRegistry', name, uri))
                         = Len(FromOtherFiles(cssVariableRegistry, name, uri))
             /\ \A className \in DOMAIN cssClassColorRegistry' :
                   /\ Len(FromFile(cssClassColorRegistry', className, uri))
                         = Len(FromFile(cssClassColorRegistry, className, uri))
                              + Len(RulesFor(files, uri, className))
                   /\ FromOtherFiles(cssClassColorRegistry', className, uri)
                         = FromOtherFiles(cssClassColorRegistry, className, uri)]_vars

\* The file a.css has been parsed twice: the registry holds its declaration
\* of --brand twice and its class-color declaration of btn twice.
C13_Witness ==
    /\ Str.brand \in DOMAIN cssVariableRegistry
    /\ Len(FromFile(cssVariableRegistry, Str.brand, "a.css")) = 2
    /\ cssVariableRegistry[Str.brand][1] = cssVariableRegistry[Str.brand][2]
    /\ Str.btn \in DOMAIN cssClassColorRegistry
    /\ Len(FromFile(cssClassColorRegistry, Str.btn, "a.css")) = 2
    /\ cssClassColorRegistry[Str.btn][1] = cssClassColorRegistry[Str.btn][2]

----------------------------------------------------------------------------
(* Scans of documents against registries read from one stylesheet *)

\* The values the stylesheet may give --n: a bare triple, a hex literal, three
\* channels, a reference to --n itself, a word that is no color.
ScanValues ==
    {<<"2", "1", "7", " ", "9", "1", "%", " ", "6", "0", "%">>,
     Str.hex111,
     <<"1", ",", " ", "2", ",", " ", "3">>,
     VarRef(<<"-", "-", "n">>),
     <<"n", "o", "n", "e">>}

\* The rules with a color property the stylesheet may hold: none,
\* .btn{color:#eee;}, .bg-n{color:#eee;}, .btn{color:var(--n);},
\* .btn{color:none;}.
ScanRules ==
    {<<>>,
     <<"\n", ".", "b", "t", "n", "{", "c", "o", "l", "o", "r", ":">> \o Str.hexEee \o <<";", "}">>,
     <<"\n", ".", "b", "g", "-", "n", "{", "c", "o", "l", "o", "r", ":">> \o Str.hexEee \o <<";", "}">>,
     <<"\n", ".", "b", "t", "n", "{", "c", "o", "l", "o", "r", ":">>
         \o VarRef(<<"-", "-", "n">>) \o <<";", "}">>,
     <<"\n", ".", "b", "t", "n", "{", "c", "o", "l", "o", "r", ":", "n", "o", "n", "e", ";", "}">>}

\* Stylesheets that declare --n twice with the same specificity, under .dark
\* and under .card, in either order:
\*   .dark{--n:#eee;}   and   .card{--n:#111;}
\*   .card{--n:#111;}         .dark{--n:#eee;}
TiedSheets ==
    {<<".", "d", "a", "r", "k", "{", "-", "-", "n", ":", "#", "e", "e", "e", ";", "}">>
         \o <<"\n", ".", "c", "a", "r", "d", "{", "-", "-", "n", ":", "#", "1", "1", "1", ";", "}">>,
     <<".", "c", "a", "r", "d", "{", "-", "-", "n", ":", "#", "1", "1", "1", ";", "}">>
         \o <<"\n", ".", "d", "a", "r", "k", "{", "-", "-", "n", ":", "#", "e", "e", "e", ";", "}">>}

\* Stylesheets where a block is closed in front of the declaration of --n,
\* inside an open block and outside every block:
\*   .card{                 .card{margin:0;}
\*   .title{margin:0;}      --n:#111;
\*   --n:#111;}
ClosedBlockSheets ==
    {<<".", "c", "a", "r", "d", "{", "\n">>
         \o <<".", "t", "i", "t", "l", "e", "{", "m", "a", "r", "g", "i", "n", ":", "0", ";", "}", "\n">>
         \o <<"-", "-", "n", ":", "#", "1", "1", "1", ";", "}">>,
     <<".", "c", "a", "r", "d", "{", "m", "a", "r", "g", "i", "n", ":", "0", ";", "}", "\n">>
         \o <<"-", "-", "n", ":", "#", "1", "1", "1", ";">>}

\* The stylesheets: :root{--n:v;} or nothing, then a rule; or a tied pair; or
\* one with a closed block.
ScanSheets ==
    {Str.root \o <<"{", "-", "-", "n", ":">> \o v \o <<";", "}">> \o rule :
        v \in ScanValues, rule \in ScanRules}
    \cup ScanRules \cup TiedSheets \cup ClosedBlockSheets

\* The registries after parseCSSFile has read one of the stylesheets.
ScanRegistries ==
    {parseCSSFile(EmptyRegistry, EmptyRegistry, Extracted("a.css", sheet)) : sheet \in ScanSheets}

\* The documents scanned against them.
ScanDocuments ==
    {"hslN", "hslaN", "rgbN", "rgbaN", "mixed", "utilityInClass", "classTwice"}

\* The registries hold what one stylesheet declares; no document is scanned yet.
InitScan ==
    /\ \E parsed \in ScanRegistries :
          /\ cssVariableRegistry = parsed.variables
          /\ cssClassColorRegistry = parsed.classes
    /\ ResolverIdle
    /\ CorpusIdle
    /\ CacheIdle
    /\ ColorIdle

NextScan == \E document \in ScanDocuments : Scan(document)

SpecScan == InitScan /\ [][NextScan]_vars

\* What each candidate of the seven matchers yields when it is the only one,
\* in the order in which collectColorData runs them.
RECURSIVE Concat(_)
Concat(seqs) == IF seqs = <<>> THEN <<>> ELSE seqs[1] \o Concat(Tail(seqs))

Detected(variables, classes, found) ==
    Concat([k \in 1..Len(found.literals) |->
               pushMatch(NewScan, found.text, found.literals[k].index,
                         found.literals[k].end).results])
    \o Concat([k \in 1..Len(found.references) |->
                  collectCSSVariableReference(NewScan, variables, found.text,
                                              found.references[k]).results])
    \o Concat([k \in 1..Len(found.classNames) |->
                  collectCSSClassColor(NewScan, variables, classes,
                                       found.classNames[k].startIndex,
                                       found.classNames[k].className).results])

\* Of the occurrences, the first one of each span not in seen.
RECURSIVE FirstOfEachSpan(_, _)
FirstOfEachSpan(occurrences, seen) ==
    IF occurrences = <<>> THEN <<>>
    ELSE IF occurrences[1].range \in seen THEN FirstOfEachSpan(Tail(occurrences), seen)
    ELSE <<occurrences[1]>>
             \o FirstOfEachSpan(Tail(occurrences), seen \cup {occurrences[1].range})

\* C14: the occurrences of one scan have pairwise different spans, and they
\* are, in the order of the matchers (hex, functional, bare triple, var(),
\* function-wrapped var(), utility class, class attribute), the first
\* occurrence detected for each span.
C14_FirstMatcherKeepsTheSpan ==
    scanResult.ran =>
        /\ \A i, j \in DOMAIN scanResult.results :
              scanResult.results[i].range = scanResult.results[j].range => i = j
        /\ scanResult.results
              = FirstOfEachSpan(Detected(cssVariableRegistry, cssClassColorRegistry,
                                         Found[scanResult.document]), {})

\* class="bg-n" has been scanned with --n a color and a rule for .bg-n: the
\* utility-class matcher and the class-attribute matcher detect the span of
\* bg-n, and the one occurrence is the one of the utility class.
C14_Witness ==
    /\ scanResult.document = "utilityInClass"
    /\ Len(Detected(cssVariableRegistry, cssClassColorRegistry, Found.utilityInClass)) = 2
    /\ Len(scanResult.results) = 1
    /\ scanResult.results[1].isTailwindClass
    /\ ~scanResult.results[1].isCssClass

\* The candidate m of the var(), wrapped var() or utility-class matcher names
\* no declared property, or the resolved value of the property is no color.
FailingReference(variables, m) ==
    \/ ~HasDeclarations(variables, m.variableName)
    \/ ~parseColor(Wrapped(m.wrappingFunction,
                           resolveNestedVariables(variables,
                               FirstBySpecificity(variables[m.variableName]).value, {}))).ok

\* The same for the word c of a class attribute.
FailingClassName(variables, classes, c) ==
    \/ ~HasDeclarations(classes, c.className)
    \/ ~parseColor(resolveNestedVariables(variables, classes[c.className][1].value, {})).ok

\* The matches on a text without the failing candidates.
WithoutFailing(variables, classes, found) ==
    [found EXCEPT !.references = SelectSeq(@, LAMBDA m : ~FailingReference(variables, m)),
                  !.classNames = SelectSeq(@, LAMBDA c : ~FailingClassName(variables, classes, c))]

\* C15: a candidate of the var(), wrapped var(), utility-class or
\* class-attribute matcher whose name is not in the registry, or whose
\* resolved value is no color (a value the cycle guard returned unexpanded
\* included), leaves no occurrence of its kind at its span, and the scan
\* returns what it returns for the text without these candidates.
C15_UnresolvedCandidateIsSkipped ==
    scanResult.ran =>
        /\ \A k \in DOMAIN Found[scanResult.document].references :
              FailingReference(cssVariableRegistry, Found[scanResult.document].references[k]) =>
                 ~\E i \in DOMAIN scanResult.results :
                      /\ scanResult.results[i].range
                            = <<Found[scanResult.document].references[k].index,
                                Found[scanResult.document].references[k].end>>
                      /\ scanResult.results[i].isCssVariable
                      /\ scanResult.results[i].isTailwindClass
                            = Found[scanResult.document].references[k].tailwind
                      /\ scanResult.results[i].isWrappedInFunction
                            = (Found[scanResult.document].references[k].wrappingFunction # <<>>)
        /\ \A k \in DOMAIN Found[scanResult.document].classNames :
              FailingClassName(cssVariableRegistry, cssClassColorRegistry,
                               Found[scanResult.document].classNames[k]) =>
                 ~\E i \in DOMAIN scanResult.results :
                      /\ scanResult.results[i].range
                            = <<Found[scanResult.document].classNames[k].startIndex,
                                Found[scanResult.document].classNames[k].startIndex
                                    + Len(Found[scanResult.document].classNames[k].className)>>
                      /\ scanResult.results[i].isCssClass
        /\ scanResult.results
              = collectColorData(cssVariableRegistry, cssClassColorRegistry,
                                 WithoutFailing(cssVariableRegistry, cssClassColorRegistry,
                                                Found[scanResult.document])).results

\* #111 var(--n) bg-n class="btn" has been scanned with --n declared as
\* var(--n) and no rule for .btn: the one occurrence is the one of #111.
C15_Witness ==
    /\ scanResult.document = "mixed"
    /\ HasDeclarations(cssVariableRegistry, <<"-", "-", "n">>)
    /\ cssVariableRegistry[<<"-", "-", "n">>][1].value = VarRef(<<"-", "-", "n">>)
    /\ ~HasDeclarations(cssClassColorRegistry, Str.btn)
    /\ Len(scanResult.results) = 1
    /\ scanResult.results[1].originalText = Str.hex111

\* The documents that are one expression F(var(--n)), with their F.
WrappingFunctionOf == [hslN |-> Str.hsl, hslaN |-> Str.hsla, rgbN |-> Str.rgb, rgbaN |-> Str.rgba]

\* The indices of the occurrences of a wrapped reference among the results.
WrappedOccurrences(results) == {i \in DOMAIN results : results[i].isWrappedInFunction}

\* C16: when F(var(--n)) is scanned, F one of hsl, hsla, rgb and rgba, with
\* --n declared with a value v for which F(v) is a color, the results hold
\* exactly one occurrence of a reference wrapped in a function; it spans the
\* whole expression and its color is the color of F(v).
C16_WrappedReferenceHasColorOfFunction ==
    \A document \in DOMAIN WrappingFunctionOf :
        (/\ scanResult.document = document
         /\ HasDeclarations(cssVariableRegistry, <<"-", "-", "n">>)
         /\ parseColor(WrappingFunctionOf[document] \o <<"(">>
                          \o cssVariableRegistry[<<"-", "-", "n">>][1].value \o <<")">>).ok)
        => /\ Cardinality(WrappedOccurrences(scanResult.results)) = 1
           /\ \A i \in WrappedOccurrences(scanResult.results) :
                 /\ scanResult.results[i].range = <<1, Len(Doc[document]) + 1>>
                 /\ scanResult.results[i].originalText = Doc[document]
                 /\ scanResult.results[i].variableName = <<"-", "-", "n">>
                 /\ scanResult.results[i].vscodeColor
                       = parseColor(WrappingFunctionOf[document] \o <<"(">>
                                       \o cssVariableRegistry[<<"-", "-", "n">>][1].value
                                       \o <<")">>).vscodeColor

\* rgb(var(--n)) has been scanned with --n: 1, 2, 3, which alone is no color:
\* the one occurrence is the wrapped reference.
C16_Witness ==
    /\ scanResult.document = "rgbN"
    /\ HasDeclarations(cssVariableRegistry, <<"-", "-", "n">>)
    /\ cssVariableRegistry[<<"-", "-", "n">>][1].value = <<"1", ",", " ", "2", ",", " ", "3">>
    /\ Len(scanResult.results) = 1
    /\ scanResult.results[1].isWrappedInFunction
    /\ scanResult.results[1].range = <<1, 14>>

----------------------------------------------------------------------------
(* Colors as text: rgbaString, hexString, hslString, tailwindString,        *)
(* formatColorByFormat, getFormatPriority and provideColorPresentations.    *)
(* The colors that are formatted have channels that are numbers; the        *)
(* fractions are exact where JavaScript rounds to the nearest double.       *)

\* String(k) for an integer k >= 0.
RECURSIVE IntegerText(_)
IntegerText(k) ==
    IF k < 10 THEN <<HexDigitChars[k + 1]>>
    ELSE IntegerText(k \div 10) \o <<HexDigitChars[(k % 10) + 1]>>

\* k.toString(16) for a channel k in 0..255, not padded.
HexByteTextUnpadded(k) ==
    IF k < 16 THEN <<HexDigitChars[k + 1]>>
    ELSE <<HexDigitChars[(k \div 16) + 1], HexDigitChars[(k % 16) + 1]>>

\* k.toString(16).padStart(2, '0') for a channel k in 0..255.
HexByteText(k) == <<HexDigitChars[(k \div 16) + 1], HexDigitChars[(k % 16) + 1]>>

\* Math.round(x * 100) for a number x >= 0: x in hundredths.
Hundredths(x) == RoundInt(Num(x.n * 100, x.d))

\* x.toFixed(2) for the number of h hundredths.
FixedText(h) ==
    IntegerText(h \div 100) \o <<".", HexDigitChars[((h % 100) \div 10) + 1],
                                 HexDigitChars[(h % 10) + 1]>>

\* String(h / 100): the shortest numeral, without trailing zeros.
ShortText(h) ==
    IF h % 100 = 0 THEN IntegerText(h \div 100)
    ELSE IF h % 10 = 0
         THEN IntegerText(h \div 100) \o <<".", HexDigitChars[((h % 100) \div 10) + 1]>>
    ELSE FixedText(h)

\* color.alpha === 1
IsOpaque(color) == Reduced(color.alpha) = Num(1, 1)

\* Lines 1402-1409 of rgbaString.
rgbaString(color, forceAlpha) ==
    IF ~forceAlpha /\ Hundredths(color.alpha) = 100
    THEN <<"r", "g", "b", "(">> \o IntegerText(color.red) \o <<",", " ">> \o IntegerText(color.green)
             \o <<",", " ">> \o IntegerText(color.blue) \o <<")">>
    ELSE <<"r", "g", "b", "a", "(">> \o IntegerText(color.red) \o <<",", " ">> \o IntegerText(color.green)
             \o <<",", " ">> \o IntegerText(color.blue) \o <<",", " ">>
             \o ShortText(Hundredths(color.alpha)) \o <<")">>

\* A hexString that leaves the alpha out.
hexStringOpaque(color, includeAlpha) ==
    <<"#">> \o HexByteText(color.red) \o HexByteText(color.green) \o HexByteText(color.blue)

\* Lines 1413-1421 of hexString.
hexString(color, includeAlpha) ==
    <<"#">> \o HexByteText(color.red) \o HexByteText(color.green) \o HexByteText(color.blue)
        \o (IF includeAlpha
            THEN HexByteText(RoundInt(Num(color.alpha.n * 255, color.alpha.d)))
            ELSE <<>>)

Max3(r, g, b) == IF r >= g /\ r >= b THEN r ELSE IF g >= b THEN g ELSE b

Min3(r, g, b) == IF r <= g /\ r <= b THEN r ELSE IF g <= b THEN g ELSE b

\* Lines 1227-1231 of rgbToHsl: the hue in degrees for max # min, the cases
\* of the switch in their order.
HueOf(r, g, b, max, d) ==
    IF max = r THEN Num(60 * (g - b) + (IF g < b THEN 360 * d ELSE 0), d)
    ELSE IF max = g THEN Num(60 * (b - r) + 120 * d, d)
    ELSE Num(60 * (r - g) + 240 * d, d)

\* Line 1225: the saturation in percent for max # min.
SaturationOf(max, min) ==
    IF max + min > 255 THEN Num(100 * (max - min), 510 - max - min)
    ELSE Num(100 * (max - min), max + min)

\* rgbToHsl for channels in 0..255 with their maximum and minimum: h in
\* degrees, s and l in percent.
HslOf(r, g, b, max, min) ==
    [h |-> IF max = min THEN Num(0, 1) ELSE HueOf(r, g, b, max, max - min),
     s |-> IF max = min THEN Num(0, 1) ELSE SaturationOf(max, min),
     l |-> Num(100 * (max + min), 510)]

rgbToHsl(r, g, b) == HslOf(r, g, b, Max3(r, g, b), Min3(r, g, b))

\* `${round(h)} ${round(s)}% ${round(l)}%` of lines 1426 and 1462.
HslBase(hsl) ==
    ShortText(Hundredths(hsl.h)) \o <<" ">> \o ShortText(Hundredths(hsl.s)) \o <<"%", " ">>
        \o ShortText(Hundredths(hsl.l)) \o <<"%">>

\* Lines 1425-1430 of hslString.
hslString(color, forceAlpha) ==
    IF ~forceAlpha /\ IsOpaque(color)
    THEN <<"h", "s", "l", "(">> \o HslBase(rgbToHsl(color.red, color.green, color.blue)) \o <<")">>
    ELSE <<"h", "s", "l", "a", "(">> \o HslBase(rgbToHsl(color.red, color.green, color.blue)) \o <<" ", "/", " ">>
             \o FixedText(Hundredths(color.alpha)) \o <<")">>

\* Lines 1461-1463 of tailwindString.
tailwindString(color) ==
    IF IsOpaque(color) THEN HslBase(rgbToHsl(color.red, color.green, color.blue))
    ELSE HslBase(rgbToHsl(color.red, color.green, color.blue)) \o <<" ", "/", " ">>
             \o FixedText(Hundredths(color.alpha))

ColorFormats == {"hex", "hexAlpha", "rgb", "rgba", "hsl", "hsla", "tailwind"}

\* undefined, for a text.
NoText == <<>>

\* A formatColorByFormat that writes every color in every format.
formatColorByFormatAlways(color, format) ==
    CASE format = "hex" -> hexString(color, FALSE)
      [] format = "hexAlpha" -> hexString(color, TRUE)
      [] format = "rgb" -> rgbaString(color, FALSE)
      [] format = "rgba" -> rgbaString(color, TRUE)
      [] format = "hsl" -> hslString(color, FALSE)
      [] format = "hsla" -> hslString(color, TRUE)
      [] format = "tailwind" -> tailwindString(color)
      [] OTHER -> NoText

\* Lines 1467-1484 of formatColorByFormat.
formatColorByFormat(color, format) ==
    CASE format = "hex" -> IF IsOpaque(color) THEN hexString(color, FALSE) ELSE NoText
      [] format = "hexAlpha" -> hexString(color, TRUE)
      [] format = "rgb" -> IF IsOpaque(color) THEN rgbaString(color, FALSE) ELSE NoText
      [] format = "rgba" -> rgbaString(color, TRUE)
      [] format = "hsl" -> IF IsOpaque(color) THEN hslString(color, FALSE) ELSE NoText
      [] format = "hsla" -> hslString(color, TRUE)
      [] format = "tailwind" -> tailwindString(color)
      [] OTHER -> NoText

\* priorityMap of lines 1488-1496.
priorityMap ==
    [hex |-> <<"hex", "rgba", "rgb", "hexAlpha", "hsl", "hsla", "tailwind">>,
     hexAlpha |-> <<"hexAlpha", "rgba", "hex", "hsla", "hsl", "tailwind">>,
     rgb |-> <<"rgb", "rgba", "hex", "hexAlpha", "hsl", "hsla", "tailwind">>,
     rgba |-> <<"rgba", "hexAlpha", "hex", "hsla", "hsl", "tailwind">>,
     hsl |-> <<"hsl", "hsla", "rgba", "hex", "hexAlpha", "tailwind">>,
     hsla |-> <<"hsla", "rgba", "hexAlpha", "hex", "tailwind", "hsl">>,
     tailwind |-> <<"tailwind", "hsla", "hsl", "rgba", "hexAlpha", "hex">>]

\* Array.from(new Set(values)): the first of each value, in order.
RECURSIVE UniqueValues(_, _)
UniqueValues(values, seen) ==
    IF values = <<>> THEN <<>>
    ELSE IF values[1] \in seen THEN UniqueValues(Tail(values), seen)
    ELSE <<values[1]>> \o UniqueValues(Tail(values), seen \cup {values[1]})

getFormatPriority(original) ==
    UniqueValues(IF original \in DOMAIN priorityMap THEN priorityMap[original]
                 ELSE <<"rgba", "hex">>, {})

\* Lines 1135-1137: the texts of the color in the formats, without the
\* undefined ones.
FormattedValues(color, formats) ==
    SelectSeq([k \in 1..Len(formats) |-> formatColorByFormat(color, formats[k])],
              LAMBDA value : value # NoText)

\* Lines 1139-1143 for the formatted values.
PresentedValues(color, uniqueValues) ==
    IF uniqueValues = <<>> THEN <<rgbaString(color, TRUE)>> ELSE uniqueValues

\* Lines 1131-1149 for the result of parseColor: the labels of the
\* presentations, each the new text of the range.
PresentationsOf(color, parsedText) ==
    IF ~parsedText.ok THEN <<>>
    ELSE PresentedValues(color,
             UniqueValues(FormattedValues(color, getFormatPriority(parsedText.format)), {}))

provideColorPresentations(color, text) == PresentationsOf(color, parseColor(text))

----------------------------------------------------------------------------
(* Colors as text: the texts a user may have written, parsed, formatted    *)
(* again, and offered as presentations for a color chosen in the picker    *)

\* Pairs of hex digits in lower, upper and mixed case, and single digits.
HexPairs == {<<"0", "0">>, <<"f", "F">>, <<"A", "b">>, <<"7", "f">>}

HexDigits == {"0", "F", "a"}

\* #RRGGBB
SixDigitTexts == {<<"#">> \o r \o g \o b : r \in HexPairs, g \in HexPairs, b \in HexPairs}

\* #RGBA and #RRGGBBAA
AlphaHexTexts ==
    {<<"#", r, g, b, a>> : r \in HexDigits, g \in HexDigits, b \in HexDigits, a \in HexDigits}
    \cup {<<"#">> \o r \o g \o b \o a :
             r \in {<<"0", "0">>, <<"A", "b">>}, g \in {<<"0", "0">>, <<"f", "f">>}, b \in {<<"0", "0">>, <<"7", "f">>},
             a \in {<<"0", "0">>, <<"f", "f">>, <<"8", "0">>, <<"A", "b">>}}

\* Texts of the other grammars, with components in and out of range, with
\* and without alpha, and with components that are no numbers; texts that
\* are no color.
OtherTexts ==
    {<<"#", "1", "1", "1">>, <<"#", "F", "f", "F">>,
     <<"r", "g", "b", "(", "1", ",", " ", "2", ",", " ", "3", ")">>, <<"r", "g", "b", "(", "3", "0", "0", ",", " ", "-", "5", ",", " ", "3", ")">>, <<"r", "g", "b", "(", "5", "0", "%", ",", " ", "1", "0", "0", "%", ",", " ", "0", "%", ")">>, <<"r", "g", "b", "(", "1", " ", "2", " ", "3", " ", "/", " ", "0", ".", "5", ")">>,
     <<"r", "g", "b", "a", "(", "1", ",", " ", "2", ",", " ", "3", ")">>, <<"r", "g", "b", "a", "(", "1", ",", " ", "2", ",", " ", "3", ",", " ", "0", ".", "5", ")">>, <<"r", "g", "b", "a", "(", "1", ",", " ", "2", ",", " ", "3", ",", " ", "2", ")">>, <<"r", "g", "b", "a", "(", "1", ",", " ", "2", ",", " ", "3", ",", " ", "5", "0", "%", ")">>,
     <<"r", "g", "b", "(", "a", ",", " ", "2", ",", " ", "3", ")">>, <<"r", "g", "b", "(", "1", ",", " ", "x", "%", ",", " ", "3", ")">>, <<"r", "g", "b", "a", "(", "1", ",", " ", "2", ",", " ", "3", ",", " ", "x", ")">>, <<"r", "g", "b", "a", "(", "1", ",", " ", "2", ",", " ", "3", ",", " ", "x", "%", ")">>,
     <<"h", "s", "l", "(", "2", "1", "7", " ", "9", "1", "%", " ", "6", "0", "%", ")">>, <<"h", "s", "l", "(", "0", ",", " ", "1", "0", "0", "%", ",", " ", "5", "0", "%", ")">>, <<"h", "s", "l", "(", "4", "0", "0", ",", " ", "1", "2", "0", "%", ",", " ", "6", "0", "%", ")">>,
     <<"h", "s", "l", "a", "(", "0", " ", "0", "%", " ", "5", "0", "%", " ", "/", " ", "0", ".", "5", ")">>, <<"h", "s", "l", "a", "(", "1", "2", "0", ",", " ", "5", "0", "%", ",", " ", "5", "0", "%", ",", " ", "2", ")">>,
     <<"h", "s", "l", "(", "x", ",", " ", "5", "0", "%", ",", " ", "5", "0", "%", ")">>, <<"h", "s", "l", "(", "0", ",", " ", "x", "%", ",", " ", "5", "0", "%", ")">>, <<"h", "s", "l", "(", "0", ",", " ", "5", "0", "%", ",", " ", "x", "%", ")">>,
     <<"2", "1", "7", " ", "9", "1", "%", " ", "6", "0", "%">>, <<"2", "1", "7", " ", "9", "1", "%", " ", "6", "0", "%", " ", "/", " ", "0", ".", "5">>, <<"4", "0", "0", " ", "1", "2", "0", "%", " ", "6", "0", "%">>, <<"0", " ", "0", "%", " ", "5", "0", "%", " ", "/", " ", "1", ".", "0">>,
     <<"x", " ", "9", "1", "%", " ", "6", "0", "%">>, <<"r", "e", "d">>, <<"#", "1", "2">>, <<"r", "g", "b", "(", "1", ",", " ", "2", ")">>}

ColorTexts == SixDigitTexts \cup AlphaHexTexts \cup OtherTexts

\* The colors the user may choose in the picker.
ChosenColors ==
    {[red |-> 255, green |-> 0, blue |-> 0, alpha |-> Num(1, 1)],
     [red |-> 60, green |-> 131, blue |-> 246, alpha |-> Num(1, 1)],
     [red |-> 17, green |-> 17, blue |-> 17, alpha |-> Num(1, 2)],
     [red |-> 0, green |-> 0, blue |-> 0, alpha |-> Num(0, 1)],
     [red |-> 1, green |-> 2, blue |-> 3, alpha |-> Num(128, 255)]}

\* Every channel of the color is a number.
IsNumeric(color) ==
    /\ color.red # NaNChannel
    /\ color.green # NaNChannel
    /\ color.blue # NaNChannel
    /\ ~color.alpha.nan

\* The user has written one of the texts.
InitColor ==
    /\ cssVariableRegistry = EmptyRegistry
    /\ cssClassColorRegistry = EmptyRegistry
    /\ ResolverIdle
    /\ CorpusIdle
    /\ CacheIdle
    /\ colorText \in ColorTexts
    /\ parsedColor = NotParsed
    /\ formatted = NotFormatted
    /\ presentations = NotPresented

\* parseColor(colorText).
ParseText ==
    /\ ~parsedColor.called
    /\ parsedColor' = [called |-> TRUE, result |-> parseColor(colorText)]
    /\ UNCHANGED <<cssVariableRegistry, cssClassColorRegistry, resolverVars, corpusVars,
                   cacheVars, colorText, formatted, presentations>>

\* formatColorByFormat(parseColor(colorText).vscodeColor, format).
FormatParsed(format) ==
    /\ parsedColor.called
    /\ parsedColor.result.ok
    /\ IsNumeric(parsedColor.result.vscodeColor)
    /\ formatted' = [called |-> TRUE, format |-> format,
                     value |-> formatColorByFormat(parsedColor.result.vscodeColor, format)]
    /\ UNCHANGED <<cssVariableRegistry, cssClassColorRegistry, resolverVars, corpusVars,
                   cacheVars, colorText, parsedColor, presentations>>

\* The user chooses color in the picker opened on colorText: VS Code calls
\* provideColorPresentations(color, {document, range}).
PickColor(color) ==
    /\ presentations' = [called |-> TRUE, color |-> color,
                         values |-> provideColorPresentations(color, colorText)]
    /\ UNCHANGED <<cssVariableRegistry, cssClassColorRegistry, resolverVars, corpusVars,
                   cacheVars, colorText, parsedColor, formatted>>

NextColor ==
    \/ ParseText
    \/ \E format \in ColorFormats : FormatParsed(format)
    \/ \E color \in ChosenColors : PickColor(color)

SpecColor == InitColor /\ [][NextColor]_vars

----------------------------------------------------------------------------
(* Claims on colors as text *)

\* C17: a 6-digit hex text #RRGGBB in upper, lower or mixed case, parsed and
\* formatted in the format hex, gives the text in lower case.
C17_SixDigitHexRoundTripsInLowerCase ==
    (/\ colorText \in SixDigitTexts
     /\ formatted.called
     /\ formatted.format = "hex")
    => formatted.value = ToLowerCase(colorText)

\* #AbfF7f has been parsed and formatted as hex: #abff7f.
C17_Witness ==
    /\ colorText = <<"#", "A", "b", "f", "F", "7", "f">>
    /\ formatted.called
    /\ formatted.format = "hex"
    /\ formatted.value = <<"#", "a", "b", "f", "f", "7", "f">>

\* The 8-digit form of a hex text with alpha: the digits of #RGBA doubled,
\* those of #RRGGBBAA as they are.
EightDigits(text) ==
    IF Len(text) = 5 THEN <<"#">> \o [i \in 1..8 |-> text[1 + ((i + 1) \div 2)]]
    ELSE text

\* C18 as the specification states it: a hex text with an alpha channel,
\* #RGBA or #RRGGBBAA, parsed and formatted in the format hexAlpha, gives
\* exactly the text.
C18_AlphaHexRoundTripsExactly ==
    (/\ colorText \in AlphaHexTexts
     /\ formatted.called
     /\ formatted.format = "hexAlpha")
    => formatted.value = colorText

\* C18: a hex text with an alpha channel, parsed and formatted in the format
\* hexAlpha, gives its 8-digit form in lower case: every digit of #RGBA
\* doubled, and the input itself only when it has 8 digits, none upper case.
C18_AlphaHexGivesEightLowerCaseDigits ==
    (/\ colorText \in AlphaHexTexts
     /\ formatted.called
     /\ formatted.format = "hexAlpha")
    => /\ formatted.value = ToLowerCase(EightDigits(colorText))
       /\ formatted.value = colorText
             <=> (Len(colorText) = 9 /\ colorText = ToLowerCase(colorText))

\* #F0aF has been parsed and formatted as hexAlpha: #ff00aaff.
C18_Witness ==
    /\ colorText = <<"#", "F", "0", "a", "F">>
    /\ formatted.called
    /\ formatted.format = "hexAlpha"
    /\ formatted.value = <<"#", "f", "f", "0", "0", "a", "a", "f", "f">>

\* The text has a component that is no number: the texts of OtherTexts with
\* a letter where a number belongs.
NonNumericTexts ==
    {text \in OtherTexts :
        /\ \E i \in DOMAIN text : text[i] = "x" \/ (text[i] = "a" /\ i > 4)
        /\ text[1] # "#"}

\* The text has no alpha component: a hex text of 3 or 6 digits, a function
\* with fewer than four arguments, a bare triple without "/".
HasNoAlphaComponent(text) ==
    IF text[1] = "#" THEN Len(text) \in {4, 7}
    ELSE IF "(" \in Range(text)
         THEN Len(SplitParts(SubSeq(text, IndexOfFrom(text, <<"(">>, 1) + 1, Len(text) - 1))) < 4
    ELSE "/" \notin Range(text)

\* The channel k/255 is a number in [0, 1].
InUnitRange(k) == k \in 0..255

\* C19: a Color that parseColor returns has red, green, blue and alpha each a
\* number in [0, 1], with alpha 1 for a text without alpha component, and
\* parseColor returns no Color for a text with a component that is no number.
C19_ParsedChannelsAreInUnitRange ==
    (parsedColor.called /\ parsedColor.result.ok)
    => /\ InUnitRange(parsedColor.result.vscodeColor.red)
       /\ InUnitRange(parsedColor.result.vscodeColor.green)
       /\ InUnitRange(parsedColor.result.vscodeColor.blue)
       /\ ~parsedColor.result.vscodeColor.alpha.nan
       /\ ~NumLess(parsedColor.result.vscodeColor.alpha, Num(0, 1))
       /\ ~NumLess(Num(1, 1), parsedColor.result.vscodeColor.alpha)
       /\ HasNoAlphaComponent(colorText) =>
             Reduced(parsedColor.result.vscodeColor.alpha) = Num(1, 1)
       /\ colorText \notin NonNumericTexts

\* The format a text is written in, by its first characters and length.
FormatOfText(text) ==
    IF text[1] = "#" THEN IF Len(text) = 9 THEN "hexAlpha" ELSE "hex"
    ELSE IF StartsWithAt(text, 1, Str.rgba \o <<"(">>) THEN "rgba"
    ELSE IF StartsWithAt(text, 1, Str.rgb \o <<"(">>) THEN "rgb"
    ELSE IF StartsWithAt(text, 1, Str.hsla \o <<"(">>) THEN "hsla"
    ELSE IF StartsWithAt(text, 1, Str.hsl \o <<"(">>) THEN "hsl"
    ELSE "tailwind"

\* The formats without alpha, which write opaque colors only.
PlainFormats == {"hex", "rgb", "hsl"}

\* The formats of the priority list of the source format that can write the color.
ExpressibleFormats(color, source) ==
    SelectSeq(priorityMap[source],
              LAMBDA format : format \notin PlainFormats \/ Reduced(color.alpha) = Num(1, 1))

\* C20: for a text that parses, the presentations of a chosen color are not
\* empty, pairwise different, and written, in this order, in the formats of
\* the priority list of the format of the text, the formats hex, rgb and hsl
\* left out exactly when the alpha of the color is not 1; so the first is in
\* the format of the text whenever that format can write the color.
C20_PresentationsFollowFormatPriority ==
    (presentations.called /\ parseColor(colorText).ok)
    => /\ presentations.values # <<>>
       /\ \A i, j \in DOMAIN presentations.values :
             presentations.values[i] = presentations.values[j] => i = j
       /\ Len(presentations.values)
             = Len(ExpressibleFormats(presentations.color, parseColor(colorText).format))
       /\ \A k \in DOMAIN presentations.values :
             FormatOfText(presentations.values[k])
                = ExpressibleFormats(presentations.color, parseColor(colorText).format)[k]
       /\ (\/ parseColor(colorText).format \notin PlainFormats
           \/ Reduced(presentations.color.alpha) = Num(1, 1))
          => FormatOfText(presentations.values[1]) = parseColor(colorText).format

\* The color 17, 17, 17 with alpha 0.5 has been chosen over #111: hex, rgb
\* and hsl are left out and the first presentation is rgba(17, 17, 17, 0.5).
C20_Witness ==
    /\ colorText = Str.hex111
    /\ presentations.called
    /\ presentations.color.alpha = Num(1, 2)
    /\ Len(presentations.values) = 4
    /\ presentations.values[1]
          = <<"r", "g", "b", "a", "(", "1", "7", ",", " ", "1", "7", ",", " ", "1", "7", ",", " ",
              "0", ".", "5", ")">>
    /\ presentations.values[4]
          = <<"0", " ", "0", "%", " ", "6", ".", "6", "7", "%", " ", "/", " ", "0", ".", "5", "0">>

----------------------------------------------------------------------------
(* Further claims on the analysis cache *)

\* C21: when the command of the native color provider fails for a
\* computation, the computation resolves with every occurrence its scan
\* collected, the cache entry of its document is set to them as after a probe
\* that succeeded, its record in pendingColorComputations is deleted, and no
\* computation is rejected.
C21_FailedProbeIsCaught ==
    [][\A c \in DOMAIN computations :
          (computations[c].status = "running" /\ computations'[c].probe = "failed")
          => /\ computations'[c].status = "resolved"
             /\ computations'[c].data = computations[c].data
             /\ colorDataCache'[computations[c].key].data = computations[c].data
             /\ colorDataCache'[computations[c].key].from = c
             /\ pendingColorComputations'[computations[c].key] = NoComputation
             /\ ~isProbingNativeColors'
             /\ \A d \in DOMAIN computations :
                   computations'[d].status = "rejected" => computations[d].status = "rejected"]_vars

\* The probe of a computation has failed: the computation has resolved with
\* the occurrence of its text, which is the cache entry.
C21_Witness ==
    \E c \in DOMAIN computations :
        /\ computations[c].probe = "failed"
        /\ computations[c].status = "resolved"
        /\ Len(computations[c].data) = 1
        /\ colorDataCache[computations[c].key].from = c
        /\ colorDataCache[computations[c].key].data = computations[c].data

\* The computations c and d read the same revision of the same document.
SameRevision(c, d) ==
    /\ computations[c].key = computations[d].key
    /\ computations[c].object = computations[d].object
    /\ computations[c].version = computations[d].version

\* C26: no occurrence in the result of a computation, and none in the cache
\* entry made of it, has a range that the native color provider has
\* reported for the same revision of the document.
C26_NoOccurrenceOnNativeRange ==
    \A c, d \in DOMAIN computations :
       (/\ computations[c].probe = "returned"
        /\ computations[d].status = "resolved"
        /\ SameRevision(c, d))
       => /\ \A k \in DOMAIN computations[d].data :
                computations[d].data[k].range \notin computations[c].native
          /\ colorDataCache[computations[d].key].from = d
                => \A k \in DOMAIN colorDataCache[computations[d].key].data :
                      colorDataCache[computations[d].key].data[k].range
                         \notin computations[c].native

\* The computation c settles in the step: its then-handler runs.
Settles(c) ==
    /\ computations[c].status = "running"
    /\ computations'[c].status = "resolved"

\* The step starts a computation.
Starts == Len(computations') = Len(computations) + 1

\* C29: a computation holds the occurrences of the text that the document
\* had when it started; when it settles, the cache entry is given the
\* version that the document shows at that moment, with occurrences taken
\* from those of the start; and a request made when the entry has the
\* version of the document is answered with the array of the entry.
C29_EntryHasVersionAtSettling ==
    /\ [][Starts =>
            /\ computations'[Len(computations')].version
                  = Version(documents'[computations'[Len(computations')].key])
            /\ computations'[Len(computations')].data
                  \in {<<>>,
                       collectColorData(cssVariableRegistry, cssClassColorRegistry,
                           Found[documents'[computations'[Len(computations')].key].text]).results}]_vars
    /\ [][\A c \in DOMAIN computations : Settles(c) =>
            /\ colorDataCache'[computations[c].key].version
                  = documents[computations[c].key].versions[computations[c].object]
            /\ colorDataCache'[computations[c].key].from = c
            /\ colorDataCache'[computations[c].key].data = computations'[c].data
            /\ Elements(computations'[c].data) \subseteq Elements(computations[c].data)]_vars
    /\ [][\A document \in Documents :
            (/\ lastRequest'[document] # lastRequest[document]
             /\ IsAnswer(lastRequest'[document])
             /\ colorDataCache[document] # NoEntry
             /\ colorDataCache[document].version = Version(documents'[document]))
            => /\ lastRequest'[document].how = "cached"
               /\ lastRequest'[document].from = colorDataCache[document].from]_vars

\* The document was changed from #111 to #eee while a computation started at
\* version 1 waited for the probe; the entry made of it has version 2 and the
\* occurrence of #111, and a request at version 2 was answered with it.
C29_Witness ==
    /\ documents["page.html"].open
    /\ documents["page.html"].text = "hexEee"
    /\ Version(documents["page.html"]) = 2
    /\ colorDataCache["page.html"].version = 2
    /\ colorDataCache["page.html"].from # NoComputation
    /\ computations[colorDataCache["page.html"].from].version = 1
    /\ \E k \in DOMAIN colorDataCache["page.html"].data :
          colorDataCache["page.html"].data[k].originalText = Str.hex111
    /\ lastRequest["page.html"].how = "cached"
    /\ lastRequest["page.html"].version = 2
    /\ lastRequest["page.html"].from = colorDataCache["page.html"].from

----------------------------------------------------------------------------
(* Further claims on declarations and their selectors *)

\* The score the specification gives a selector.
StatedSpecificity(selector) ==
    IF selector = Str.root \/ selector = Str.html THEN 1
    ELSE IF Includes(selector, <<".">>) \/ Includes(selector, <<"[">>)
         THEN 10 + 10 * CountChar(selector, ".")
    ELSE IF Includes(selector, <<"#">>) THEN 100
    ELSE 0

\* C22: the specificity of every declaration in the registry is 1 for the
\* selector :root or html, 10 + 10 x (number of ".") for a selector with a
\* class or an attribute selector, 100 for one with "#", and 0 otherwise.
C22_SpecificityScore ==
    \A name \in DOMAIN cssVariableRegistry : \A i \in DOMAIN cssVariableRegistry[name] :
        cssVariableRegistry[name][i].context.specificity
            = StatedSpecificity(cssVariableRegistry[name][i].selector)

\* The least specificity among the declarations.
LowestSpecificity(declarations) ==
    CHOOSE least \in {declarations[i].context.specificity : i \in DOMAIN declarations} :
        \A i \in DOMAIN declarations : least <= declarations[i].context.specificity

\* The positions of the declarations with the least specificity, and of
\* those among them without a theme hint.
LowestTied(declarations) ==
    {i \in DOMAIN declarations :
        declarations[i].context.specificity = LowestSpecificity(declarations)}

Unhinted(declarations) ==
    {i \in LowestTied(declarations) : declarations[i].context.themeHint = "none"}

\* The occurrences of plain var() references among the results.
PlainReferences(results) ==
    {i \in DOMAIN results :
        /\ results[i].isCssVariable
        /\ ~results[i].isWrappedInFunction
        /\ ~results[i].isTailwindClass}

\* C23: when several declarations of --n share the lowest specificity and
\* one of them has no theme hint, a reference var(--n) has the color of a
\* declaration without theme hint, in whatever order they were inserted.
C23_TieBrokenByThemeHint ==
    (/\ scanResult.ran
     /\ HasDeclarations(cssVariableRegistry, <<"-", "-", "n">>)
     /\ Unhinted(cssVariableRegistry[<<"-", "-", "n">>]) # {})
    => \A i \in PlainReferences(scanResult.results) :
          \E k \in Unhinted(cssVariableRegistry[<<"-", "-", "n">>]) :
             scanResult.results[i].vscodeColor
                = parseColor(cssVariableRegistry[<<"-", "-", "n">>][k].value).vscodeColor

\* The "{" at index i has no "}" of its own in front of index varIndex: every
\* prefix of the text between them closes no more blocks than it opens.
OpenAt(text, i, varIndex) ==
    /\ text[i] = "{"
    /\ \A j \in (i + 1)..(varIndex - 1) :
          Cardinality({k \in (i + 1)..j : text[k] = "}"})
             <= Cardinality({k \in (i + 1)..j : text[k] = "{"})

\* The index of the nearest "{" in front of varIndex that is still open
\* there, 0 for none.
NearestOpenBrace(text, varIndex) ==
    MaxOrZero({i \in 1..(varIndex - 1) : OpenAt(text, i, varIndex)})

\* The indices at which cssVarRegex matches in the text.
DeclarationIndices(text) ==
    {m.index : m \in Elements(Leftmost([i \in 1..Len(text) |-> CssVarMatchEnd(text, i)], 1))}

\* Every declaration in the registry.
Registered == UNION {Elements(cssVariableRegistry[n]) : n \in DOMAIN cssVariableRegistry}

\* C24: a declaration has the selector on the nearest non-empty, non-comment
\* line in front of the nearest "{" that is still open at the declaration,
\* and :root when no "{" is open there.
C24_SelectorOfNearestOpenBrace ==
    \A sheet \in ScanSheets :
       Registered = Elements(CssVarDeclarations("a.css", sheet))
       => \A i \in DeclarationIndices(sheet) :
             \E d \in Registered :
                /\ d.line = LineOf(sheet, i)
                /\ d.selector = SelectorBefore(sheet, NearestOpenBrace(sheet, i))

\* The range of var(--n) in the document F(var(--n)).
InnerRange(document) == <<Len(WrappingFunctionOf[document]) + 2, Len(Doc[document])>>

\* C30: when F(var(--n)) is scanned and the value v of --n is a color on its
\* own, the results hold an occurrence of a plain reference to --n over the
\* inner var(--n), with the color of v; when F(v) is a color as well, they
\* hold besides it the wrapped occurrence over the whole expression, so that
\* the span of one occurrence lies within the span of another.
C30_InnerReferenceIsReportedToo ==
    \A document \in DOMAIN WrappingFunctionOf :
        (/\ scanResult.document = document
         /\ HasDeclarations(cssVariableRegistry, <<"-", "-", "n">>)
         /\ parseColor(cssVariableRegistry[<<"-", "-", "n">>][1].value).ok)
        => /\ \E i \in PlainReferences(scanResult.results) :
                 /\ scanResult.results[i].range = InnerRange(document)
                 /\ scanResult.results[i].variableName = <<"-", "-", "n">>
                 /\ scanResult.results[i].vscodeColor
                       = parseColor(cssVariableRegistry[<<"-", "-", "n">>][1].value).vscodeColor
           /\ parseColor(WrappingFunctionOf[document] \o <<"(">>
                            \o cssVariableRegistry[<<"-", "-", "n">>][1].value \o <<")">>).ok
                 => /\ Len(scanResult.results) = 2
                    /\ \E i \in WrappedOccurrences(scanResult.results) :
                          /\ scanResult.results[i].range = <<1, Len(Doc[document]) + 1>>
                          /\ scanResult.results[i].range[1] < InnerRange(document)[1]
                          /\ InnerRange(document)[2] < scanResult.results[i].range[2]

\* hsl(var(--n)) has been scanned with --n: 217 91% 60%: the results are the
\* plain reference to --n and the wrapped occurrence over the expression.
C30_Witness ==
    /\ scanResult.document = "hslN"
    /\ HasDeclarations(cssVariableRegistry, <<"-", "-", "n">>)
    /\ cssVariableRegistry[<<"-", "-", "n">>][1].value
          = <<"2", "1", "7", " ", "9", "1", "%", " ", "6", "0", "%">>
    /\ Len(scanResult.results) = 2
    /\ ~scanResult.results[1].isWrappedInFunction
    /\ scanResult.results[1].isCssVariable
    /\ scanResult.results[1].range = <<5, 13>>
    /\ scanResult.results[2].isWrappedInFunction
    /\ scanResult.results[2].range = <<1, 14>>

----------------------------------------------------------------------------
(* Further claims on the resolution of references *)

\* The names that the var() references of the value name.
ReferencedNames(value) ==
    {VarMatchName(value, i) :
        i \in {k \in 1..Len(value) : NextVarMatch(value, k) = k}}

\* A declaration of the name with the lowest specificity.
LowestDeclaration(name) ==
    CHOOSE d \in Elements(cssVariableRegistry[name]) :
        \A e \in Elements(cssVariableRegistry[name]) :
            d.context.specificity <= e.context.specificity

\* The names reached from the names by following the references of the
\* lowest declarations, in at most fuel steps.
RECURSIVE ReachedFrom(_, _)
ReachedFrom(names, fuel) ==
    IF fuel = 0 THEN names
    ELSE ReachedFrom(
             names \cup UNION {ReferencedNames(LowestDeclaration(n).value) :
                                  n \in names \cap DOMAIN cssVariableRegistry},
             fuel - 1)

\* The references of the value, followed transitively, name only registered
\* properties and form no cycle.
Resolvable(value) ==
    /\ ReachedFrom(ReferencedNames(value), MaxNames) \subseteq DOMAIN cssVariableRegistry
    /\ \A n \in ReachedFrom(ReferencedNames(value), MaxNames) :
          n \notin ReachedFrom(ReferencedNames(LowestDeclaration(n).value), MaxNames)

\* The value read from index i on, each reference replaced by the fully
\* substituted value of the lowest declaration of its name.
RECURSIVE Substituted(_, _)
Substituted(value, i) ==
    IF i > Len(value) THEN <<>>
    ELSE IF NextVarMatch(value, i) = i
         THEN Substituted(LowestDeclaration(VarMatchName(value, i)).value, 1)
                  \o Substituted(value, VarMatchEnd(value, i) + 1)
    ELSE <<value[i]>> \o Substituted(value, i + 1)

\* C25: a resolution of a value whose references, followed transitively,
\* form no cycle and name only registered properties returns the value with
\* every reference replaced by the fully resolved value of the lowest
\* declaration of its name; no var() reference remains in it.
C25_AcyclicValueIsFullyResolved ==
    (resolvePc = "done" /\ Resolvable(resolveAsked.value))
    => /\ resolveResult = Substituted(resolveAsked.value, 1)
       /\ ~Includes(resolveResult, Str.var)
       /\ ~circularDetected

\* The resolution of a value that names --c twice has returned.
C25_Witness ==
    /\ resolvePc = "done"
    /\ Resolvable(resolveAsked.value)
    /\ resolveAsked.value
          = VarRef(Str.dashes \o <<"c">>) \o <<" ">> \o VarRef(Str.dashes \o <<"c">>)

----------------------------------------------------------------------------
(* Further claims on the registry *)

\* The first of the declarations that have the lowest specificity, in the
\* order of the array.
FirstAmongLowest(declarations) ==
    declarations[CHOOSE i \in LowestTied(declarations) :
                    \A k \in LowestTied(declarations) : i <= k]

\* The declaration selected for the name is still in the array of the name
\* after the step, and the step brings no declaration of lower specificity.
StaysLowest(name) ==
    /\ name \in DOMAIN cssVariableRegistry'
    /\ FirstAmongLowest(cssVariableRegistry[name]) \in Elements(cssVariableRegistry'[name])
    /\ LowestSpecificity(cssVariableRegistry'[name])
          = LowestSpecificity(cssVariableRegistry[name])

\* The handler of a changed file takes a step for the file uri, which exists.
ChangeHandled(uri) ==
    /\ [kind |-> "change", uri |-> uri] \in watcherEvents
    /\ [kind |-> "change", uri |-> uri] \notin watcherEvents'
    /\ files[uri] # NoFile

----------------------------------------------------------------------------
(* The registry and the cache together: an editor shows page.html, which   *)
(* refers to --brand, while a.css is written and deleted, and the handlers *)
(* of the watcher and the re-index command refresh the editor.             *)
(* The pending record of a computation is never cleared here, so that no   *)
(* computation starts while another one probes.                            *)

\* The texts that a.css is given.
WatchedTexts == {"root", "rootEee"}

\* refreshVisibleEditors (lines 1542-1546) called when the registries are
\* variables and classes: the visible editor shows page.html.
refreshVisibleEditors(variables, classes) ==
    refreshEditor(variables, classes, "page.html", documents["page.html"], languages)

\* The workspace holds a.css, which the index run of the activation has
\* parsed; page.html is open and not analysed yet.
InitWatched ==
    /\ cssVariableRegistry =
          parseCSSFile(EmptyRegistry, EmptyRegistry, Extraction.root).variables
    /\ cssClassColorRegistry =
          parseCSSFile(EmptyRegistry, EmptyRegistry, Extraction.root).classes
    /\ ResolverIdle
    /\ ColorIdle
    /\ files = [u \in Uris |-> IF u = "a.css" THEN "root" ELSE NoFile]
    /\ watcherEvents = {}
    /\ indexRuns = <<>>
    /\ scanResult = NoScan
    /\ removedNames = {}
    /\ documents = [document \in Documents |-> Opened(Unopened, "varAndClass")]
    /\ languages = {"html"}
    /\ colorDataCache = [document \in Documents |-> NoEntry]
    /\ pendingColorComputations = [document \in Documents |-> NoComputation]
    /\ computations = <<>>
    /\ isProbingNativeColors = FALSE
    /\ deactivated = FALSE
    /\ lastRequest = [document \in Documents |-> NoRequest]

\* Lines 124-129 and 132-136 with a visible editor: the file is parsed and
\* the editor is refreshed against the registries as the parse leaves them.
ParsedAndRefreshed(after) ==
    /\ WithinBound(after.variables)
    /\ WithinBound(after.classes)
    /\ cssClassColorRegistry' = after.classes
    /\ removedNames' = removedNames \ DOMAIN after.variables
    /\ scanResult' = NoScan
    /\ refreshVisibleEditors(after.variables, after.classes)

\* cssWatcher.onDidChange and onDidCreate (lines 123-137) with a visible
\* editor; a file that is gone fails to open: nothing is parsed or refreshed.
onDidChangeVisible(event) ==
    /\ event.kind \in {"change", "create"}
    /\ Turn
    /\ IF files[event.uri] # NoFile
       THEN ParsedAndRefreshed(parseCSSFile(cssVariableRegistry, cssClassColorRegistry,
                                            Extraction[files[event.uri]]))
       ELSE UNCHANGED <<cssVariableRegistry, cssClassColorRegistry, scanResult, removedNames,
                        colorDataCache, pendingColorComputations, computations,
                        isProbingNativeColors, lastRequest>>
    /\ watcherEvents' = watcherEvents \ {event}
    /\ UNCHANGED <<resolverVars, colorVars, files, indexRuns, documents, languages, deactivated>>

\* cssWatcher.onDidDelete (lines 138-150) with a visible editor.
onDidDeleteVisible(event) ==
    /\ event.kind = "delete"
    /\ Turn
    /\ refreshVisibleEditors(WithoutDeclarationsOf(cssVariableRegistry, event.uri),
                             cssClassColorRegistry)
    /\ removedNames' =
          DOMAIN cssVariableRegistry
             \ DOMAIN WithoutDeclarationsOf(cssVariableRegistry, event.uri)
    /\ scanResult' = NoScan
    /\ watcherEvents' = watcherEvents \ {event}
    /\ UNCHANGED <<cssClassColorRegistry, resolverVars, colorVars, files, indexRuns,
                   documents, languages, deactivated>>

\* findFiles answers the run r of the command yavcop.reindexCSSFiles
\* (lines 160-165); with no file the run returns and the editor is refreshed.
IndexFindFilesVisible(r) ==
    /\ indexRuns[r].pc = "findFiles"
    /\ Turn
    /\ \E cssFiles \in Listings({u \in Uris : files[u] # NoFile}) :
          IF cssFiles = <<>>
          THEN /\ indexRuns' = Without(indexRuns, r)
               /\ refreshVisibleEditors(cssVariableRegistry, cssClassColorRegistry)
          ELSE /\ indexRuns' = [indexRuns EXCEPT ![r] = [pc |-> "parse", cssFiles |-> cssFiles]]
               /\ UNCHANGED <<cssVariableRegistry, colorDataCache, pendingColorComputations,
                              computations, isProbingNativeColors, lastRequest>>
    /\ UNCHANGED <<cssClassColorRegistry, resolverVars, colorVars, files, watcherEvents,
                   scanResult, removedNames, documents, languages, deactivated>>

\* The run r parses its only file (lines 551-557), returns, and the command
\* refreshes the editor (line 163); a file that is gone is logged.
IndexParseVisible(r) ==
    /\ indexRuns[r].pc = "parse"
    /\ Len(indexRuns[r].cssFiles) = 1
    /\ Turn
    /\ IF files[indexRuns[r].cssFiles[1]] # NoFile
       THEN ParsedAndRefreshed(parseCSSFile(cssVariableRegistry, cssClassColorRegistry,
                                            Extraction[files[indexRuns[r].cssFiles[1]]]))
       ELSE /\ refreshVisibleEditors(cssVariableRegistry, cssClassColorRegistry)
            /\ UNCHANGED <<cssClassColorRegistry, scanResult, removedNames>>
    /\ indexRuns' = IndexAdvanced(r)
    /\ UNCHANGED <<resolverVars, colorVars, files, watcherEvents, documents, languages,
                   deactivated>>

NextWatched ==
    \/ \E document \in Documents : provideColorHover(document)
    \/ \E c \in DOMAIN computations :
          \E nativeRanges \in SUBSET RangesOf(computations[c].data) :
             ProbeReturned(c, nativeRanges)
    \/ \E c \in DOMAIN computations : ProbeFailed(c)
    \/ \E c \in DOMAIN computations : catchHandler(c)
    \/ \E text \in WatchedTexts : FileWrite("a.css", text)
    \/ FileDelete("a.css")
    \/ \E event \in watcherEvents : onDidChangeVisible(event)
    \/ \E event \in watcherEvents : onDidDeleteVisible(event)
    \/ IndexStart
    \/ \E r \in DOMAIN indexRuns : IndexFindFilesVisible(r)
    \/ \E r \in DOMAIN indexRuns : IndexParseVisible(r)

SpecWatched == InitWatched /\ [][NextWatched]_vars

\* The cache holds an entry for the revision of the document that is open.
CachedAtRevision(document) ==
    /\ colorDataCache[document] # NoEntry
    /\ colorDataCache[document].version = Version(documents[document])

\* The step changes a registry.
RegistryChanged ==
    \/ cssVariableRegistry' # cssVariableRegistry
    \/ cssClassColorRegistry' # cssClassColorRegistry

\* C28: no step that changes a registry (the parse of a file, the handler of
\* a deleted file, the clearing and the parses of a full re-index) changes
\* an entry of the cache, and a request for a document made while the cache
\* holds an entry for its revision is answered with the array of that entry
\* and starts no scan, whatever the registry holds by then.
C28_RegistryChangeKeepsCacheEntries ==
    /\ [][RegistryChanged => colorDataCache' = colorDataCache]_vars
    /\ [][\A document \in Documents :
             (lastRequest'[document] # lastRequest[document] /\ CachedAtRevision(document))
             => /\ lastRequest'[document].how = "cached"
                /\ lastRequest'[document].from = colorDataCache[document].from
                /\ colorDataCache' = colorDataCache
                /\ computations' = computations]_vars

\* a.css has been deleted and its declarations removed, so that a scan would
\* find no declaration of --brand, and the refresh by the handler was
\* answered from the cache with the occurrence of var(--brand).
C28_Witness ==
    /\ files["a.css"] = NoFile
    /\ watcherEvents = {}
    /\ ~HasDeclarations(cssVariableRegistry, Str.brand)
    /\ collectColorData(cssVariableRegistry, cssClassColorRegistry,
                        Found[documents["page.html"].text]).results = <<>>
    /\ lastRequest["page.html"].how = "cached"
    /\ lastRequest["page.html"].from = colorDataCache["page.html"].from
    /\ \E k \in DOMAIN colorDataCache["page.html"].data :
          colorDataCache["page.html"].data[k].variableName = Str.brand

====
